---- MODULE Spec2Model ----
(***************************************************************************)
(* Curie web client: the role-guarded router, the authentication provider, *)
(* the HTTP wrapper with its 401-triggered token refresh, the two login    *)
(* pages, the URL-bound chat hook with the composer, and the RAG document  *)
(* upload client.                                                          *)
(***************************************************************************)
EXTENDS Integers, Sequences, FiniteSets, TLC

VARIABLES
  storage,       \* localStorage: the keys actor and access_token
  actor,         \* AuthProvider state: actor
  token,         \* AuthProvider state: token
  timerCurrent,  \* AuthProvider timer ref (0 when null)
  timers,        \* pending window timeouts of scheduleRefresh: [id, ms]
  rt,            \* tryRefresh calls started by a fired timer, still in flight
  location,      \* router location, as the sequence of path segments
  lastNav,       \* detail of the last app-nav event handled by NavBridge
  req,           \* doFetch calls in flight, one slot per calling flow
  si,            \* SignInPage.onSubmit
  sa,            \* SuperAdminLoginPage.onSubmit
  lo,            \* AuthProvider.logout
  up,            \* uploadDocuments call
  chat,          \* useUrlChat hook with the chat page's composer
  ret,           \* the last call of a helper function: argument and result
  theme,         \* ThemeProvider: brand and mode, in memory and in localStorage
  rag            \* the RAG documents page: staged files, log, uploads in flight

vars == <<storage, actor, token, timerCurrent, timers, rt, location, lastNav,
          req, si, sa, lo, up, chat, ret, theme, rag>>

authVars == <<storage, actor, token, timerCurrent, timers>>

(***************************************************************************)
(* Values                                                                  *)
(***************************************************************************)
Null == "null"

Actors == {"user", "admin", "super_admin"}

\* role values a profile response can carry (Null: no role field)
Roles == Actors \cup {"bogus", Null}

\* access tokens the login endpoint issues
LoginTokens == {"t1"}

\* access tokens the refresh endpoint issues
RefreshTokens == {"t2", "t3"}

Tokens == LoginTokens \cup RefreshTokens

\* an expires_in that is absent or not a number
NoNum == -1

\* a value that is present but does not convert to a finite number
NotNumeric == -2

\* a JSON value that is not a string: the number 7
NumToken == "#7"

\* typeof v === 'string', for the value v of a token field
IsString(v) == v \notin {Null, NumToken}

\* v as a condition: null, undefined and the empty string are falsy
Truthy(v) == v \notin {Null, ""}

\* String(v), what localStorage.setItem stores for v
Stringify(v) == IF v = NumToken THEN "7" ELSE v

\* expires_in values a response can carry
ExpiresVals == {NoNum, 0, 12}

DefaultExpires == 3600

MaxTimerRefresh == 1

(***************************************************************************)
(* Router: RoutesView                                                      *)
(***************************************************************************)
SignInPath == <<"signin">>

Page(name) == [kind |-> "page", page |-> name, to |-> <<>>, replace |-> FALSE]

Navigate(to, replace) == [kind |-> "navigate", page |-> "", to |-> to, replace |-> replace]

\* a guard that only asks for some signed-in actor
GuardAnyActor(a, role, el) == IF a # Null THEN el ELSE Navigate(SignInPath, FALSE)

\* actor === role ? element : <Navigate to="/signin" />
Guard(a, role, el) == IF a = role THEN el ELSE Navigate(SignInPath, FALSE)

RoutesView(path, a) ==
  CASE path = <<>> -> Page("LandingPage")
    [] path = <<"signin">> -> Page("SignInPage")
    [] path = <<"signup">> -> Page("SignUpPage")
    [] path = <<"administrator">> -> Page("SuperAdminLoginPage")
    [] path = <<"user">> -> Guard(a, "user", Navigate(<<"user", "chat">>, TRUE))
    [] path = <<"user", "chat">> -> Guard(a, "user", Page("UserChatPage"))
    [] Len(path) = 3 /\ SubSeq(path, 1, 2) = <<"user", "chat">> ->
         Guard(a, "user", Page("UserChatPage"))
    [] path = <<"user", "notifications">> -> Guard(a, "user", Page("NotificationsPage"))
    [] path = <<"admin">> -> Guard(a, "admin", Navigate(<<"admin", "admin">>, TRUE))
    [] path = <<"admin", "admin">> -> Guard(a, "admin", Page("RagDocumentsPage"))
    [] path = <<"admin", "notifications">> -> Guard(a, "admin", Page("NotificationsPage"))
    [] path = <<"admin", "user">> ->
         Guard(a, "admin", Navigate(<<"admin", "user", "chat">>, TRUE))
    [] path = <<"admin", "user", "chat">> -> Guard(a, "admin", Page("AdminUserChatMain"))
    [] Len(path) = 4 /\ SubSeq(path, 1, 3) = <<"admin", "user", "chat">> ->
         Guard(a, "admin", Page("AdminUserChatMain"))
    [] path = <<"superadmin">> ->
         Guard(a, "super_admin", Navigate(<<"superadmin", "admins">>, TRUE))
    [] path = <<"superadmin", "admins">> ->
         Guard(a, "super_admin", Page("SuperAdminAdminsPage"))
    [] path = <<"superadmin", "users">> ->
         Guard(a, "super_admin", Page("SuperAdminUsersPage"))
    [] OTHER -> Navigate(<<>>, FALSE)

MaxRedirects == 3

RECURSIVE Settle(_, _, _)
\* where the router ends from path for actor a: <Navigate> elements are
\* followed, at most n of them, until a page is rendered
Settle(path, a, n) ==
  LET r == RoutesView(path, a)
  IN IF r.kind = "navigate" /\ n > 0 THEN Settle(r.to, a, n - 1) ELSE path

\* the landing route of a role: where its home path redirects to
Landing(a) ==
  CASE a = "user" -> <<"user", "chat">>
    [] a = "admin" -> <<"admin", "admin">>
    [] a = "super_admin" -> <<"superadmin", "admins">>

MaxSessions == 2

\* chat session ids the server hands out
SessionIds == 101..(100 + MaxSessions)

\* the session id segments used in URLs
SidSegs == {ToString(i) : i \in SessionIds}

PublicPaths == {<<>>, <<"signin">>, <<"signup">>, <<"administrator">>}

ProtectedPaths ==
  {<<"user">>, <<"user", "chat">>, <<"user", "notifications">>,
   <<"admin">>, <<"admin", "admin">>, <<"admin", "notifications">>,
   <<"admin", "user">>, <<"admin", "user", "chat">>,
   <<"superadmin">>, <<"superadmin", "admins">>, <<"superadmin", "users">>}
  \cup {<<"user", "chat", s>> : s \in SidSegs}
  \cup {<<"admin", "user", "chat", s>> : s \in SidSegs}

\* URLs a browser can be pointed at
LoadPaths == PublicPaths \cup ProtectedPaths \cup {<<"nowhere">>}

(***************************************************************************)
(* AuthProvider                                                            *)
(***************************************************************************)
Max(a, b) == IF a >= b THEN a ELSE b

ClearTimeout(ts, id) == {t \in ts : t.id # id}

\* the id window.setTimeout hands out: one that no pending timeout has
NewTimerId(ts) == CHOOSE i \in 1..(Cardinality(ts) + 1) : \A t \in ts : t.id # i

\* a delay computed without the 5 second floor
RefreshDelayNoFloor(expiresIn) == (expiresIn - 10) * 1000

RefreshDelay(expiresIn) == Max(5000, (expiresIn - 10) * 1000)

\* scheduleRefresh that arms a new timeout without cancelling the old one
ScheduleRefreshNoCancel(tc, ts, expiresIn) ==
  IF expiresIn = NoNum \/ expiresIn = 0
    THEN [current |-> tc, pending |-> ts]
    ELSE LET id == NewTimerId(ts)
         IN [current |-> id,
             pending |-> ts \cup {[id |-> id, ms |-> RefreshDelay(expiresIn),
                                  expiresIn |-> expiresIn]}]

\* scheduleRefresh(expiresIn) on timer ref tc and pending timeouts ts; a
\* timeout keeps the expiresIn it was armed for next to its delay
ScheduleRefresh(tc, ts, expiresIn) ==
  LET cleared == IF tc # 0 THEN ClearTimeout(ts, tc) ELSE ts
  IN IF expiresIn = NoNum \/ expiresIn = 0
       THEN [current |-> tc, pending |-> cleared]
       ELSE LET id == NewTimerId(cleared)
            IN [current |-> id,
                pending |-> cleared \cup {[id |-> id, ms |-> RefreshDelay(expiresIn),
                                          expiresIn |-> expiresIn]}]

\* a home path that ignores the actor
HomePathUser(a) == <<"user">>

\* to = a === 'user' ? '/user' : a === 'admin' ? '/admin' : '/superadmin'
HomePath(a) ==
  IF a = "user" THEN <<"user">> ELSE IF a = "admin" THEN <<"admin">> ELSE <<"superadmin">>

\* NavBridge: the app-nav listener calls nav(to, {replace})
NavBridge(to, replace) ==
  /\ location' = to
  /\ lastNav' = [to |-> to, replace |-> replace]

\* setAuth(a, t, expiresIn)
SetAuth(a, t, expiresIn) ==
  LET sch == ScheduleRefresh(timerCurrent, timers, expiresIn)
  IN /\ actor' = a
     /\ token' = t
     /\ storage' = [actor |-> a, access_token |-> t]
     /\ timerCurrent' = sch.current
     /\ timers' = sch.pending
     /\ NavBridge(HomePath(a), TRUE)

(***************************************************************************)
(* HTTP wrapper: tryRefresh and doFetch                                    *)
(***************************************************************************)
RefreshResponses ==
  {[kind |-> k, access_token |-> Null, expires_in |-> NoNum] : k \in {"non2xx", "neterr"}}
  \cup {[kind |-> "2xx", access_token |-> t, expires_in |-> e] :
          t \in RefreshTokens \cup {Null}, e \in ExpiresVals}

\* every answer the refresh endpoint can give: also a 2xx whose body does not
\* parse, an empty or non-string access_token
RefreshResponsesAll ==
  {[kind |-> k, access_token |-> Null, expires_in |-> NoNum] :
     k \in {"non2xx", "neterr", "badjson"}}
  \cup {[kind |-> "2xx", access_token |-> t, expires_in |-> e] :
          t \in RefreshTokens \cup {Null, "", NumToken}, e \in ExpiresVals}

\* res.ok, then data?.access_token && typeof data?.expires_in === 'number'
RefreshSucceeds(r) == r.kind = "2xx" /\ Truthy(r.access_token) /\ r.expires_in # NoNum

NoEvent == [token |-> Null, expires_in |-> NoNum]

\* tryRefresh on response r: its boolean result, whether it threw, the value
\* it passed to localStorage.setItem and the detail of the event it dispatched
TryRefresh(r) ==
  IF RefreshSucceeds(r)
    THEN [ok |-> TRUE, threw |-> FALSE, setItem |-> Stringify(r.access_token),
          event |-> [token |-> r.access_token, expires_in |-> r.expires_in]]
    ELSE [ok |-> FALSE, threw |-> FALSE, setItem |-> Null, event |-> NoEvent]

\* an onRefreshed that puts the token in memory and leaves the timer alone
TryRefreshApplyNoSchedule(r) ==
  LET out == TryRefresh(r)
  IN IF out.ok
       THEN /\ storage' = [storage EXCEPT !.access_token = out.setItem]
            /\ token' = IF Truthy(out.event.token) THEN out.event.token ELSE token
            /\ UNCHANGED <<timerCurrent, timers>>
       ELSE UNCHANGED <<storage, token, timerCurrent, timers>>

\* what tryRefresh does on response r: setItem, then the auth-refreshed
\* event, handled synchronously by AuthProvider.onRefreshed
TryRefreshApply(r) ==
  LET out == TryRefresh(r)
      sch == ScheduleRefresh(timerCurrent, timers, out.event.expires_in)
  IN IF out.ok
       THEN /\ storage' = [storage EXCEPT !.access_token = out.setItem]
            /\ IF Truthy(out.event.token)
                 THEN /\ token' = out.event.token
                      /\ timerCurrent' = sch.current
                      /\ timers' = sch.pending
                 ELSE UNCHANGED <<token, timerCurrent, timers>>
       ELSE UNCHANGED <<storage, token, timerCurrent, timers>>

Callers == {"signin", "sa", "logout", "boot", "load", "op", "upload", "download"}

IdleReq == [pc |-> "idle", method |-> "", url |-> "", fetches |-> 0, refreshes |-> 0,
            auth |-> Null]

\* doFetch(url, init): the first fetch is issued, carrying authHeaders()
NewReq(method, url, tok) ==
  [pc |-> "fetch1", method |-> method, url |-> url, fetches |-> 1, refreshes |-> 0,
   auth |-> tok]

EmptyBody == [access_token |-> Null, expires_in |-> NoNum, role |-> Null]

LoginBodies ==
  {[access_token |-> t, expires_in |-> e, role |-> Null] :
     t \in LoginTokens \cup {Null}, e \in {NoNum, 12}}

ProfileBodies == {[access_token |-> Null, expires_in |-> NoNum, role |-> r] : r \in Roles}

\* 2xx bodies the server can answer with, by endpoint
Bodies(url) ==
  CASE url = "/auth/login" -> LoginBodies
    [] url = "/profile/" -> ProfileBodies
    [] OTHER -> {EmptyBody}

OkRes(b) == [ok |-> TRUE, status |-> 200, body |-> b, prefixed |-> FALSE]

\* ensureOk's error: "<METHOD> <url>: <message>"
HttpFail(status) == [ok |-> FALSE, status |-> status, body |-> EmptyBody, prefixed |-> TRUE]

\* a rejected fetch: status 0; prefixed tells whether doFetch wrapped it
NetFail(prefixed) == [ok |-> FALSE, status |-> 0, body |-> EmptyBody, prefixed |-> prefixed]

\* the ways the doFetch call of caller c can settle in its current state
Outcomes(c) ==
  LET r == req[c]
  IN CASE r.pc = "fetch1" ->
            {OkRes(b) : b \in Bodies(r.url)} \cup {HttpFail(500), NetFail(TRUE)}
       [] r.pc = "refresh" -> {HttpFail(401)}
       [] r.pc = "fetch2" ->
            {OkRes(b) : b \in Bodies(r.url)}
            \cup {HttpFail(401), HttpFail(500), NetFail(FALSE)}
       [] OTHER -> {}

\* the doFetch call of caller c refreshed the token and is on its retried fetch
Retried(c) == req[c].pc = "fetch2"

\* a retry path that re-enters the 401 branch on the retried fetch
DoFetch401Again(c) ==
  /\ req[c].pc \in {"fetch1", "fetch2"}
  /\ req[c].refreshes < 3
  /\ req' = [req EXCEPT ![c].pc = "refresh", ![c].refreshes = @ + 1]
  /\ UNCHANGED <<rag, theme, ret, storage, actor, token, timerCurrent, timers, rt, location, lastNav,
                 si, sa, lo, up, chat>>

\* doFetch: the first response is 401 and _retry is false: tryRefresh() starts
DoFetch401(c) ==
  /\ req[c].pc = "fetch1"
  /\ req' = [req EXCEPT ![c].pc = "refresh", ![c].refreshes = @ + 1]
  /\ UNCHANGED <<rag, theme, ret, storage, actor, token, timerCurrent, timers, rt, location, lastNav,
                 si, sa, lo, up, chat>>

\* a refresh whose answer is dropped when another refresh has already replaced
\* the token the request was sent with
DoFetchRefreshedFirstWins(c) ==
  /\ req[c].pc = "refresh"
  /\ \E r \in RefreshResponses :
       /\ RefreshSucceeds(r)
       /\ IF storage.access_token = req[c].auth
            THEN TryRefreshApply(r)
            ELSE UNCHANGED <<storage, token, timerCurrent, timers>>
       /\ req' = [req EXCEPT ![c].pc = "fetch2", ![c].fetches = @ + 1,
                             ![c].auth = r.access_token]
  /\ UNCHANGED <<rag, theme, ret, actor, rt, location, lastNav, si, sa, lo, up, chat>>

\* doFetch: tryRefresh() returned true: the request is fetched again with
\* fresh authHeaders()
DoFetchRefreshed(c) ==
  /\ req[c].pc = "refresh"
  /\ \E r \in RefreshResponses :
       /\ RefreshSucceeds(r)
       /\ TryRefreshApply(r)
       /\ req' = [req EXCEPT ![c].pc = "fetch2", ![c].fetches = @ + 1,
                             ![c].auth = r.access_token]
  /\ UNCHANGED <<rag, theme, ret, actor, rt, location, lastNav, si, sa, lo, up, chat>>

(***************************************************************************)
(* api/auth.ts login(): normalisation of the login response                *)
(***************************************************************************)
\* toNumber(n, fallback)
ToNumber(n, fallback) == IF n \in {NoNum, NotNumeric} THEN fallback ELSE n

RECURSIVE Coalesce(_, _)
\* a ?? b ?? ... over the values vs: the first that is not absent
Coalesce(vs, absent) ==
  IF vs = <<>> THEN absent
  ELSE IF Head(vs) # absent THEN Head(vs) ELSE Coalesce(Tail(vs), absent)

\* a login that reads the canonical field only
TokenFieldsCanonical == <<"access_token">>

\* the response fields login() accepts a token under, in the order it reads them
TokenFields == <<"access_token", "access", "token", "accessToken", "id_token">>

ExpiresFields == <<"expires_in", "expiresIn", "expires">>

\* login response bodies: an object with any of the fields (Null and NoNum:
\* the field is absent or null), or a bare string body
LoginData ==
  {[bare |-> Null, access_token |-> a, access |-> b, token |-> c, accessToken |-> d,
    id_token |-> e, expires_in |-> x, expiresIn |-> y, expires |-> z] :
      a \in {Null, "", "abc123", NumToken}, b \in {Null, "", "abc123"},
      c \in {Null, "tok"}, d \in {Null, "tok"}, e \in {Null, "tok"},
      x \in {NoNum, 12, NotNumeric}, y \in {NoNum, 60}, z \in {NoNum, 90}}
  \cup {[bare |-> s, access_token |-> Null, access |-> Null, token |-> Null,
          accessToken |-> Null, id_token |-> Null, expires_in |-> NoNum,
          expiresIn |-> NoNum, expires |-> NoNum] : s \in {"", "raw"}}

\* login(): the normalized token of response body data, or the error thrown
Login(data) ==
  LET tkn == Coalesce([i \in 1..Len(TokenFields) |-> data[TokenFields[i]]]
                      \o <<data.bare>>, Null)
      exp == Coalesce([i \in 1..Len(ExpiresFields) |-> data[ExpiresFields[i]]], NoNum)
  IN IF ~Truthy(tkn) \/ ~IsString(tkn)
       THEN [ok |-> FALSE, error |-> "Login response missing an access token",
             access_token |-> Null, expires_in |-> NoNum]
       ELSE [ok |-> TRUE, error |-> Null, access_token |-> tkn,
             expires_in |-> ToNumber(exp, DefaultExpires)]

\* login() is about to normalize the response body data
LoginCalled(data) == [fn |-> "login-called", arg |-> data]

\* login() returns or throws
LoginReturns ==
  /\ ret.fn = "login-called"
  /\ ret' = [fn |-> "login", arg |-> ret.arg, out |-> Login(ret.arg)]
  /\ UNCHANGED <<rag, theme, storage, actor, token, timerCurrent, timers, rt, location, lastNav,
                 req, si, sa, lo, up, chat>>

\* login() throws unless the response carries a token string
LoginHasToken(body) == body.access_token # Null

(***************************************************************************)
(* SignInPage.onSubmit                                                     *)
(***************************************************************************)
\* err: Null, or which step's error message is shown; committed: setAuth
\* was called by the last submit
IdleSignIn == [pc |-> "idle", err |-> Null, busy |-> FALSE, tok |-> Null, exp |-> NoNum,
               committed |-> FALSE]

SignInSubmit ==
  /\ location = SignInPath
  /\ ~si.busy
  /\ si' = [IdleSignIn EXCEPT !.pc = "login", !.busy = TRUE]
  /\ req' = [req EXCEPT !["signin"] = NewReq("POST", "/auth/login", storage.access_token)]
  /\ UNCHANGED <<rag, theme, ret, storage, actor, token, timerCurrent, timers, rt, location, lastNav,
                 sa, lo, up, chat>>

\* a catch block that shows the error but leaves the temp token in storage
SignInCatchKeepToken(stage) ==
  /\ si' = [IdleSignIn EXCEPT !.err = stage]
  /\ req' = [req EXCEPT !["signin"] = IdleReq]
  /\ UNCHANGED <<rag, theme, ret, storage, actor, token, timerCurrent, timers, rt, location, lastNav,
                 sa, lo, up, chat>>

\* catch: removeItem('access_token'), setErr; finally: setBusy(false)
SignInCatch(stage) ==
  /\ storage' = [storage EXCEPT !.access_token = Null]
  /\ si' = [IdleSignIn EXCEPT !.err = stage]
  /\ req' = [req EXCEPT !["signin"] = IdleReq]
  /\ UNCHANGED <<rag, theme, ret, actor, token, timerCurrent, timers, rt, location, lastNav,
                 sa, lo, up, chat>>

\* login() resolved: the token is stored and getProfile() starts
SignInLoginOk ==
  /\ si.pc = "login"
  /\ \E res \in Outcomes("signin") :
       /\ res.ok /\ LoginHasToken(res.body)
       /\ storage' = [storage EXCEPT !.access_token = res.body.access_token]
       /\ si' = [si EXCEPT !.pc = "profile", !.tok = res.body.access_token,
                           !.exp = ToNumber(res.body.expires_in, DefaultExpires)]
       /\ req' = [req EXCEPT !["signin"] =
                    NewReq("GET", "/profile/", res.body.access_token)]
  /\ UNCHANGED <<rag, theme, ret, actor, token, timerCurrent, timers, rt, location, lastNav,
                 sa, lo, up, chat>>

\* login() rejected, or resolved without a token
SignInLoginFail ==
  /\ si.pc = "login"
  /\ \E res \in Outcomes("signin") :
       /\ ~(res.ok /\ LoginHasToken(res.body))
       /\ SignInCatch(IF res.ok THEN "token" ELSE "login")

\* getProfile() resolved with a role: setAuth(role, tok, expires_in)
SignInProfileOk ==
  /\ si.pc = "profile"
  /\ \E res \in Outcomes("signin") :
       /\ res.ok /\ res.body.role # Null
       /\ SetAuth(res.body.role, si.tok, si.exp)
  /\ si' = [IdleSignIn EXCEPT !.committed = TRUE]
  /\ req' = [req EXCEPT !["signin"] = IdleReq]
  /\ UNCHANGED <<rag, theme, ret, rt, sa, lo, up, chat>>

\* getProfile() rejected, or the profile has no role
SignInProfileFail ==
  /\ si.pc = "profile"
  /\ \E res \in Outcomes("signin") :
       /\ ~(res.ok /\ res.body.role # Null)
       /\ SignInCatch(IF res.ok THEN "role" ELSE "profile")

(***************************************************************************)
(* SuperAdminLoginPage.onSubmit                                            *)
(***************************************************************************)
NoSnapshot == [actor |-> Null, token |-> Null,
               storage |-> [actor |-> Null, access_token |-> Null]]

\* the auth state in memory and in durable storage
Snapshot == [actor |-> actor, token |-> token, storage |-> storage]

\* pre: the auth state when the submit began; refreshed: a doFetch call of
\* this submit refreshed the token; role: me.role of the fetched profile
IdleSA == [pc |-> "idle", err |-> Null, busy |-> FALSE, tok |-> Null, exp |-> NoNum,
           committed |-> FALSE, refreshed |-> FALSE, pre |-> NoSnapshot, role |-> Null]

SuperAdminPath == <<"administrator">>

SuperAdminSubmit ==
  /\ location = SuperAdminPath
  /\ ~sa.busy
  /\ sa' = [IdleSA EXCEPT !.pc = "login", !.busy = TRUE, !.pre = Snapshot]
  /\ req' = [req EXCEPT !["sa"] = NewReq("POST", "/auth/login", storage.access_token)]
  /\ UNCHANGED <<rag, theme, ret, storage, actor, token, timerCurrent, timers, rt, location, lastNav,
                 si, lo, up, chat>>

\* setErr(...); finally setBusy(false); nothing is stored
SuperAdminFail(stage, role) ==
  /\ sa' = [IdleSA EXCEPT !.err = stage, !.refreshed = sa.refreshed \/ Retried("sa"),
                          !.pre = sa.pre, !.role = role]
  /\ req' = [req EXCEPT !["sa"] = IdleReq]
  /\ UNCHANGED <<rag, theme, ret, storage, actor, token, timerCurrent, timers, rt, location, lastNav,
                 si, lo, up, chat>>

\* login() resolved: getProfile() starts, with the headers storage gives
SuperAdminLoginOk ==
  /\ sa.pc = "login"
  /\ \E res \in Outcomes("sa") :
       /\ res.ok /\ LoginHasToken(res.body)
       /\ sa' = [sa EXCEPT !.pc = "profile", !.tok = res.body.access_token,
                           !.exp = ToNumber(res.body.expires_in, DefaultExpires),
                           !.refreshed = @ \/ Retried("sa")]
  /\ req' = [req EXCEPT !["sa"] = NewReq("GET", "/profile/", storage.access_token)]
  /\ UNCHANGED <<rag, theme, ret, storage, actor, token, timerCurrent, timers, rt, location, lastNav,
                 si, lo, up, chat>>

SuperAdminLoginFail ==
  /\ sa.pc = "login"
  /\ \E res \in Outcomes("sa") :
       /\ ~(res.ok /\ LoginHasToken(res.body))
       /\ SuperAdminFail(IF res.ok THEN "token" ELSE "login", Null)

\* a role check that accepts any role the profile carries
RoleAcceptedAny(role) == role # Null

\* me.role !== 'super_admin' rejects
RoleAccepted(role) == role = "super_admin"

\* the profile's role is super_admin: setAuth('super_admin', tok, expires_in)
SuperAdminProfileOk ==
  /\ sa.pc = "profile"
  /\ \E res \in Outcomes("sa") :
       /\ res.ok /\ RoleAccepted(res.body.role)
       /\ sa' = [IdleSA EXCEPT !.committed = TRUE,
                               !.refreshed = sa.refreshed \/ Retried("sa"),
                               !.pre = sa.pre, !.role = res.body.role]
  /\ SetAuth("super_admin", sa.tok, sa.exp)
  /\ req' = [req EXCEPT !["sa"] = IdleReq]
  /\ UNCHANGED <<rag, theme, ret, rt, si, lo, up, chat>>

\* getProfile() rejected, or the role is not super_admin
SuperAdminProfileFail ==
  /\ sa.pc = "profile"
  /\ \E res \in Outcomes("sa") :
       /\ ~(res.ok /\ RoleAccepted(res.body.role))
       /\ SuperAdminFail(IF res.ok THEN "role" ELSE "profile", res.body.role)

(***************************************************************************)
(* AuthProvider.logout                                                     *)
(***************************************************************************)
\* the portal layout (header with the Logout entry) is on screen
InPortal == location \in ProtectedPaths /\ RoutesView(location, actor).kind = "page"

LogoutClick ==
  /\ InPortal
  /\ lo # "awaiting"
  /\ lo' = "awaiting"
  /\ req' = [req EXCEPT !["logout"] = NewReq("POST", "/auth/logout", storage.access_token)]
  /\ UNCHANGED <<rag, theme, ret, storage, actor, token, timerCurrent, timers, rt, location, lastNav,
                 si, sa, up, chat>>

\* a logout that clears storage and state but leaves the timer armed
LogoutSettlesKeepTimer ==
  /\ lo = "awaiting"
  /\ Outcomes("logout") # {}
  /\ storage' = [actor |-> Null, access_token |-> Null]
  /\ actor' = Null
  /\ token' = Null
  /\ NavBridge(SignInPath, TRUE)
  /\ lo' = "done"
  /\ req' = [req EXCEPT !["logout"] = IdleReq]
  /\ UNCHANGED <<rag, theme, ret, timerCurrent, timers, rt, si, sa, up, chat>>

\* apiLogout() settled, resolved or rejected: the cleanup after the try/catch
LogoutSettles ==
  /\ lo = "awaiting"
  /\ Outcomes("logout") # {}
  /\ storage' = [actor |-> Null, access_token |-> Null]
  /\ actor' = Null
  /\ token' = Null
  /\ timers' = IF timerCurrent # 0 THEN ClearTimeout(timers, timerCurrent) ELSE timers
  /\ NavBridge(SignInPath, TRUE)
  /\ lo' = "done"
  /\ req' = [req EXCEPT !["logout"] = IdleReq]
  /\ UNCHANGED <<rag, theme, ret, timerCurrent, rt, si, sa, up, chat>>

(***************************************************************************)
(* Proactive refresh timer                                                 *)
(***************************************************************************)
\* the timeout armed by scheduleRefresh fires and calls tryRefresh()
TimerFire ==
  /\ rt < MaxTimerRefresh
  /\ \E t \in timers : timers' = timers \ {t}
  /\ rt' = rt + 1
  /\ UNCHANGED <<rag, theme, ret, storage, actor, token, timerCurrent, location, lastNav, req,
                 si, sa, lo, up, chat>>

\* the refresh POST of a timer-started tryRefresh() settles
TimerRefreshSettles ==
  /\ rt > 0
  /\ \E r \in RefreshResponses : TryRefreshApply(r)
  /\ rt' = rt - 1
  /\ UNCHANGED <<rag, theme, ret, actor, location, lastNav, req, si, sa, lo, up, chat>>

(***************************************************************************)
(* tryRefresh under every answer of the refresh endpoint                   *)
(***************************************************************************)
\* the refresh POST of a timer-started tryRefresh() settles, with any answer
TimerRefreshSettlesAny ==
  /\ rt > 0
  /\ \E r \in RefreshResponsesAll :
       /\ TryRefreshApply(r)
       /\ ret' = [fn |-> "tryRefresh", arg |-> r, out |-> TryRefresh(r)]
  /\ rt' = rt - 1
  /\ UNCHANGED <<rag, theme, actor, location, lastNav, req, si, sa, lo, up, chat>>

(***************************************************************************)
(* Navigation                                                              *)
(***************************************************************************)
\* a <Navigate> element rendered for the current location takes effect
RouteRedirect ==
  /\ RoutesView(location, actor).kind = "navigate"
  /\ location' = RoutesView(location, actor).to
  /\ UNCHANGED <<rag, theme, ret, storage, actor, token, timerCurrent, timers, rt, lastNav, req,
                 si, sa, lo, up, chat>>

\* targets of the links and buttons of the page on screen
Links ==
  IF location \in PublicPaths
    THEN {<<"signin">>, <<"signup">>, IF actor \in Actors THEN HomePath(actor) ELSE <<>>}
    ELSE IF ~InPortal THEN {}
    ELSE CASE actor = "user" -> {<<"user">>, <<"user", "notifications">>}
           [] actor = "admin" ->
                {<<"admin">>, <<"admin", "admin">>, <<"admin", "notifications">>,
                 <<"admin", "user">>}
           [] actor = "super_admin" ->
                {<<"superadmin">>, <<"superadmin", "admins">>, <<"superadmin", "users">>}
           [] OTHER -> {}

\* the user follows a link: nav(path)
Go ==
  /\ \E p \in Links : p # location /\ location' = p
  /\ UNCHANGED <<rag, theme, ret, storage, actor, token, timerCurrent, timers, rt, lastNav, req,
                 si, sa, lo, up, chat>>

\* the awaited operation: id and sid (the session id the handler closed
\* over) of the call; for rename the title argument the caller passed, whether
\* the prompt opened and the title sent; for send whether sendMessage
\* rejected and whether the alert was shown
NoOp == [kind |-> "none", pc |-> "idle", id |-> 0, sid |-> 0, arg |-> <<>>,
         hasArg |-> FALSE, prompted |-> FALSE, sent |-> <<>>, failed |-> FALSE,
         alerted |-> FALSE]

\* how the last awaited operation ended: its kind and id, and whether its
\* promise resolved or rejected
NoDone == [kind |-> "none", id |-> 0, result |-> "none"]

Done(op, result) == [kind |-> op.kind, id |-> op.id, result |-> result]

\* the chat hook is not mounted; bootNavs: the nav() calls of the boot effect;
\* sessions is the state of the sidebar's useUrlChat, whose open, create,
\* rename and remove are the ones called; pageSessions is the sessions state
\* of the chat page's own useUrlChat and pageBoot the progress of its boot
IdleChat == [base |-> "user", server |-> <<>>, sessions |-> <<>>, pageSessions |-> <<>>,
             pageBoot |-> "idle", messagesFor |-> 0,
             boot |-> "idle", bootSid |-> 0, bootNavs |-> <<>>, loadSid |-> 0,
             text |-> "", busy |-> FALSE, op |-> NoOp, done |-> NoDone]

\* files: the argument; items: the results pushed so far; served: what the
\* server answered to each request posted so far; threw: the call rejected
IdleUp == [pc |-> "idle", files |-> <<>>, items |-> <<>>, served |-> <<>>, threw |-> FALSE,
           sent |-> <<>>, inflight |-> {}]

\* the RAG documents page as mounted: selected, the staged files; log, the
\* lines shown, newest first; calls, the onUpload calls that have not returned,
\* each with the files it was given and the number of its settled requests;
\* staged and posted count, per file, how often it was staged and posted
FileNames == {"a.pdf", "b.pdf"}

IdleRag == [selected |-> <<>>, log |-> <<>>, calls |-> <<>>,
            staged |-> [f \in FileNames |-> 0], posted |-> [f \in FileNames |-> 0]]

\* no helper function has been called
NoCall == [fn |-> "none"]

NoNav == [to |-> <<>>, replace |-> FALSE]

(***************************************************************************)
(* state/theme.tsx ThemeProvider                                           *)
(***************************************************************************)
Brands == {"grey", "blue", "green", "yellow", "red"}

Modes == {"light", "dark"}

\* localStorage.getItem(LS_BRAND) || 'blue', were the stored value skipped
RestoreBrandDefault(stored) == "blue"

\* localStorage.getItem(LS_BRAND) || 'blue'
RestoreBrand(stored) == IF Truthy(stored) THEN stored ELSE "blue"

\* localStorage.getItem(LS_MODE) || 'light'
RestoreMode(stored) == IF Truthy(stored) THEN stored ELSE "light"

\* the provider as mounted over the stored values lsBrand and lsMode; setBrand
\* and setMode hold the last argument of each setter, restored tells that no
\* setter has been called since the provider mounted
Mounted(lsBrand, lsMode, lastBrand, lastMode) ==
  [brand |-> RestoreBrand(lsBrand), mode |-> RestoreMode(lsMode),
   lsBrand |-> lsBrand, lsMode |-> lsMode,
   setBrand |-> lastBrand, setMode |-> lastMode, restored |-> TRUE]

\* a page load mounts the provider anew over what localStorage holds
Restored(t) == Mounted(t.lsBrand, t.lsMode, t.setBrand, t.setMode)

\* the provider of a browser that has stored neither key
FreshTheme == Mounted(Null, Null, Null, Null)

\* setBrand(b), called by a swatch of the options menu
SetBrand ==
  /\ \E b \in Brands :
       theme' = [theme EXCEPT !.brand = b, !.lsBrand = b, !.setBrand = b,
                              !.restored = FALSE]
  /\ UNCHANGED <<rag, ret, storage, actor, token, timerCurrent, timers, rt, location, lastNav,
                 req, si, sa, lo, up, chat>>

\* setMode(v ? 'dark' : 'light'), called by the toggle of the options menu
SetMode ==
  /\ \E m \in Modes :
       theme' = [theme EXCEPT !.mode = m, !.lsMode = m, !.setMode = m,
                              !.restored = FALSE]
  /\ UNCHANGED <<rag, ret, storage, actor, token, timerCurrent, timers, rt, location, lastNav,
                 req, si, sa, lo, up, chat>>

\* the browser loads the application at URL p: AuthProvider initialises from
\* localStorage; timers and pending continuations of the old page are gone
LoadAt(p) ==
  /\ location' = p
  /\ actor' = storage.actor
  /\ token' = storage.access_token
  /\ timerCurrent' = 0
  /\ timers' = {}
  /\ rt' = 0
  /\ lastNav' = NoNav
  /\ req' = [c \in Callers |-> IdleReq]
  /\ si' = IdleSignIn
  /\ sa' = IdleSA
  /\ lo' = "idle"
  /\ theme' = Restored(theme)
  /\ rag' = IdleRag
  /\ UNCHANGED <<ret, storage, up, chat>>

(***************************************************************************)
(* useUrlChat, with the sidebar's session list and the page's composer     *)
(***************************************************************************)
\* prefix = base === 'user' ? '/user/chat' : '/admin/user/chat'
Prefix(base) == IF base = "user" THEN <<"user", "chat">> ELSE <<"admin", "user", "chat">>

\* sid = params.sid ? Number(params.sid) : null, 0 standing for null and NaN
SidOf(path, base) ==
  IF Len(path) = Len(Prefix(base)) + 1 /\ path[Len(path)] \in SidSegs
    THEN CHOOSE i \in SessionIds : ToString(i) = path[Len(path)]
    ELSE 0

\* `${prefix}/${id}`
SessionPath(base, id) == Prefix(base) \o <<ToString(id)>>

Sid == SidOf(location, chat.base)

\* prev.filter(x => x.id !== id)
Without(list, id) == SelectSeq(list, LAMBDA x : x # id)

InList(list, id) == \E i \in 1..Len(list) : list[i] = id

Range(list) == {list[i] : i \in 1..Len(list)}

\* nav(to) followed by the [sid] effect of the next render: an empty list for
\* no session, else loadMessages(sid); c is the chat state after the caller's
\* own updates and r the requests after them
NavAndLoad(to, c, r) ==
  LET new == SidOf(to, c.base)
  IN /\ location' = to
     /\ IF new = Sid
          THEN chat' = c /\ req' = r
          ELSE IF new = 0
            THEN chat' = [c EXCEPT !.messagesFor = 0] /\ req' = r
            ELSE /\ r["load"].pc = "idle"
                 /\ chat' = [c EXCEPT !.loadSid = new]
                 /\ req' = [r EXCEPT !["load"] =
                              NewReq("GET", "/chat/sessions/id/messages",
                                     storage.access_token)]

\* the boot effect's target, were it always the bare prefix
BootTargetPrefix(items, base) == Prefix(base)

\* first = res.items[0]?.id; `${prefix}/${first}` if (first), else `${prefix}`
BootTarget(items, base) ==
  IF Len(items) > 0 THEN SessionPath(base, items[1]) ELSE Prefix(base)

\* boot effect: listSessions() resolved; without a session id in the URL it
\* navigates, replacing, to the first session or to the bare prefix
BootOk ==
  /\ chat.boot = "listing"
  /\ \E res \in Outcomes("boot") : res.ok
  /\ LET to == BootTarget(chat.server, chat.base)
         c == [chat EXCEPT !.boot = "done", !.sessions = chat.server]
         r == [req EXCEPT !["boot"] = IdleReq]
     IN IF chat.bootSid = 0
          THEN NavAndLoad(to, [c EXCEPT !.bootNavs = Append(chat.bootNavs,
                                                           [to |-> to, replace |-> TRUE])], r)
          ELSE chat' = c /\ req' = r /\ UNCHANGED location
  /\ UNCHANGED <<rag, theme, ret, storage, actor, token, timerCurrent, timers, rt, lastNav, si, sa, lo, up>>

\* boot effect of the chat page's own useUrlChat: its listSessions() resolved
PageBootOk ==
  /\ chat.pageBoot = "listing"
  /\ LET to == BootTarget(chat.server, chat.base)
         c == [chat EXCEPT !.pageBoot = "done", !.pageSessions = chat.server]
     IN IF chat.bootSid = 0
          THEN NavAndLoad(to, [c EXCEPT !.bootNavs = Append(chat.bootNavs,
                                                           [to |-> to, replace |-> TRUE])], req)
          ELSE chat' = c /\ UNCHANGED <<req, location>>
  /\ UNCHANGED <<rag, theme, ret, storage, actor, token, timerCurrent, timers, rt, lastNav, si, sa, lo, up>>

\* boot effect: listSessions() rejected; nothing handles it
BootFail ==
  /\ chat.boot = "listing"
  /\ \E res \in Outcomes("boot") : ~res.ok
  /\ chat' = [chat EXCEPT !.boot = "failed"]
  /\ req' = [req EXCEPT !["boot"] = IdleReq]
  /\ UNCHANGED <<rag, theme, ret, storage, actor, token, timerCurrent, timers, rt, location, lastNav,
                 si, sa, lo, up>>

\* loadMessages(sid) of the [sid] effect settles: the fetched list, or []
EffectLoadSettles ==
  /\ chat.loadSid # 0
  /\ \E res \in Outcomes("load") :
       chat' = [chat EXCEPT !.messagesFor = IF res.ok THEN chat.loadSid ELSE 0,
                            !.loadSid = 0]
  /\ req' = [req EXCEPT !["load"] = IdleReq]
  /\ UNCHANGED <<rag, theme, ret, storage, actor, token, timerCurrent, timers, rt, location, lastNav,
                 si, sa, lo, up>>

\* open(id): a session of the sidebar list is clicked
Open ==
  /\ \E i \in 1..Len(chat.sessions) :
       /\ chat.sessions[i] # Sid
       /\ NavAndLoad(SessionPath(chat.base, chat.sessions[i]), chat, req)
  /\ UNCHANGED <<rag, theme, ret, storage, actor, token, timerCurrent, timers, rt, lastNav, si, sa, lo, up>>

\* one sidebar or composer operation is awaited at a time
CanStartOp == chat.op.kind = "none" /\ chat.boot \in {"done", "failed"}

\* create(): createSession() is posted
CreateCall ==
  /\ CanStartOp
  /\ chat' = [chat EXCEPT !.op = [NoOp EXCEPT !.kind = "create", !.pc = "creating"],
                          !.done = NoDone]
  /\ req' = [req EXCEPT !["op"] = NewReq("POST", "/chat/sessions", storage.access_token)]
  /\ UNCHANGED <<rag, theme, ret, storage, actor, token, timerCurrent, timers, rt, location, lastNav,
                 si, sa, lo, up>>

\* createSession() resolved with a new session s: it is put first, nav to it
CreateOk ==
  /\ chat.op.kind = "create"
  /\ \E res \in Outcomes("op") : res.ok
  /\ \E id \in SessionIds :
       /\ ~InList(chat.server, id) /\ ~InList(chat.sessions, id)
       /\ NavAndLoad(SessionPath(chat.base, id),
                     [chat EXCEPT !.server = <<id>> \o @, !.sessions = <<id>> \o @,
                                  !.op = NoOp, !.done = Done(chat.op, "resolved")],
                     [req EXCEPT !["op"] = IdleReq])
  /\ UNCHANGED <<rag, theme, ret, storage, actor, token, timerCurrent, timers, rt, lastNav, si, sa, lo, up>>

\* an awaited chat API call of create, rename or remove rejected: the
\* operation rejects and the hook state stays as it is
OpRejects ==
  /\ chat.op.kind \in {"create", "rename", "remove"}
  /\ \E res \in Outcomes("op") : ~res.ok
  /\ chat' = [chat EXCEPT !.op = NoOp, !.done = Done(chat.op, "rejected")]
  /\ req' = [req EXCEPT !["op"] = IdleReq]
  /\ UNCHANGED <<rag, theme, ret, storage, actor, token, timerCurrent, timers, rt, location, lastNav,
                 si, sa, lo, up>>

\* remove(id): deleteSession(id) is sent; sid is the one the handler closed over
RemoveCall ==
  /\ CanStartOp
  /\ \E i \in 1..Len(chat.sessions) :
       chat' = [chat EXCEPT !.op = [NoOp EXCEPT !.kind = "remove", !.pc = "deleting",
                                               !.id = chat.sessions[i], !.sid = Sid],
                            !.done = NoDone]
  /\ req' = [req EXCEPT !["op"] = NewReq("DELETE", "/chat/sessions/id", storage.access_token)]
  /\ UNCHANGED <<rag, theme, ret, storage, actor, token, timerCurrent, timers, rt, location, lastNav,
                 si, sa, lo, up>>

\* a removal that navigates to the head of the list before filtering it
RemoveTargetUnfiltered(list, id, base) ==
  IF Len(list) > 0 THEN SessionPath(base, list[1]) ELSE Prefix(base)

\* nextId ? `${prefix}/${nextId}` : `${prefix}`, nextId = next[0]?.id
RemoveTarget(list, id, base) ==
  LET next == Without(list, id)
  IN IF Len(next) > 0 THEN SessionPath(base, next[1]) ELSE Prefix(base)

\* deleteSession(id) resolved: the list is filtered and, when the removed
\* session was the active one, nav goes to the next session or the prefix
RemoveOk ==
  /\ chat.op.kind = "remove"
  /\ \E res \in Outcomes("op") : res.ok
  /\ LET id == chat.op.id
         c == [chat EXCEPT !.server = Without(@, id), !.sessions = Without(@, id),
                           !.op = NoOp, !.done = Done(chat.op, "resolved")]
         r == [req EXCEPT !["op"] = IdleReq]
     IN IF chat.op.sid = id
          THEN NavAndLoad(RemoveTarget(chat.sessions, id, chat.base), c, r)
          ELSE chat' = c /\ req' = r /\ UNCHANGED location
  /\ UNCHANGED <<rag, theme, ret, storage, actor, token, timerCurrent, timers, rt, lastNav, si, sa, lo, up>>

\* titles, as sequences of characters
TitleSpaced == <<" ", " ", "M", "y", " ", " ", " ", " ", "C", "h", "a", "t", " ", " ", " ">>

TitleLong == [i \in 1..60 |-> "x"]

TitlePlain == <<"N", "e", "w">>

\* titles a caller of rename passes as second argument, as the sidebars'
\* commitEdit does with the edited text
EditedTitles == {TitleSpaced, TitleLong}

\* what window.prompt can return: a typed text, or the cancel value
PromptCancelled == <<"cancel">>

PromptResults == {PromptCancelled, TitlePlain}

\* rename(id): the hook's rename takes the id only; whatever else the caller
\* passes (hasArg, arg) is dropped; window.prompt('New title?') opens, a
\* cancelled prompt returns, any other text is sent as typed
RenameCall ==
  /\ CanStartOp
  /\ \E i \in 1..Len(chat.sessions), hasArg \in BOOLEAN, arg \in EditedTitles,
        title \in PromptResults :
       LET id == chat.sessions[i]
           call == [NoOp EXCEPT !.kind = "rename", !.pc = "renaming", !.id = id,
                                !.hasArg = hasArg, !.arg = IF hasArg THEN arg ELSE <<>>,
                                !.prompted = TRUE, !.sent = title]
       IN IF title = PromptCancelled
            THEN UNCHANGED <<chat, req>>
            ELSE /\ chat' = [chat EXCEPT !.op = call, !.done = NoDone]
                 /\ req' = [req EXCEPT !["op"] =
                              NewReq("PATCH", "/chat/sessions/id", storage.access_token)]
  /\ UNCHANGED <<rag, theme, ret, storage, actor, token, timerCurrent, timers, rt, location, lastNav,
                 si, sa, lo, up>>

\* renameSession() resolved with the session s: it replaces the list entry
RenameOk ==
  /\ chat.op.kind = "rename"
  /\ \E res \in Outcomes("op") : res.ok
  /\ chat' = [chat EXCEPT !.op = NoOp, !.done = Done(chat.op, "resolved")]
  /\ req' = [req EXCEPT !["op"] = IdleReq]
  /\ UNCHANGED <<rag, theme, ret, storage, actor, token, timerCurrent, timers, rt, location, lastNav,
                 si, sa, lo, up>>

\* texts of the composer field
Texts == {"", "hi"}

\* the user edits the composer field; the input is disabled while busy and
\* while there is no active session
Type ==
  /\ ~chat.busy /\ Sid # 0
  /\ \E t \in Texts : t # chat.text /\ chat' = [chat EXCEPT !.text = t]
  /\ UNCHANGED <<rag, theme, ret, storage, actor, token, timerCurrent, timers, rt, location, lastNav,
                 req, si, sa, lo, up>>

\* ChatComposer.handleSend, then the page's onSend and the hook's send(id,
\* content): sendMessage is posted for the session that is active
ComposerSend ==
  /\ CanStartOp
  /\ Sid # 0 /\ ~chat.busy
  /\ chat.text # ""
  /\ chat' = [chat EXCEPT !.busy = TRUE, !.done = NoDone,
                          !.op = [NoOp EXCEPT !.kind = "send", !.pc = "sending",
                                              !.id = Sid, !.sid = Sid]]
  /\ req' = [req EXCEPT !["op"] =
               NewReq("POST", "/chat/sessions/id/messages", storage.access_token)]
  /\ UNCHANGED <<rag, theme, ret, storage, actor, token, timerCurrent, timers, rt, location, lastNav,
                 si, sa, lo, up>>

\* a send whose catch block alerts and returns without the reload
SendSettlesReloadOnSuccess(res) ==
  IF res.ok
    THEN /\ chat' = [chat EXCEPT !.op.pc = "reloading"]
         /\ req' = [req EXCEPT !["op"] =
                      NewReq("GET", "/chat/sessions/id/messages", storage.access_token)]
    ELSE /\ chat' = [chat EXCEPT !.op = NoOp, !.busy = FALSE, !.text = "",
                                 !.done = Done(chat.op, "resolved")]
         /\ req' = [req EXCEPT !["op"] = IdleReq]

\* send: sendMessage settled, resolved or rejected (catch: alert); the
\* finally block starts loadMessages(id)
SendSettlesThenReload(res) ==
  /\ chat' = [chat EXCEPT !.op.pc = "reloading", !.op.failed = ~res.ok,
                          !.op.alerted = ~res.ok]
  /\ req' = [req EXCEPT !["op"] =
               NewReq("GET", "/chat/sessions/id/messages", storage.access_token)]

SendSettles ==
  /\ chat.op.kind = "send" /\ chat.op.pc = "sending"
  /\ \E res \in Outcomes("op") : SendSettlesThenReload(res)
  /\ UNCHANGED <<rag, theme, ret, storage, actor, token, timerCurrent, timers, rt, location, lastNav,
                 si, sa, lo, up>>

\* handleSend after `await onSend(trimmed)` resolved: setText('')
ComposerAfterSend(text, failed) == ""

\* send: the reload after the send settled (loadMessages catches its own
\* error), send resolves, and the composer's handleSend continues
ReloadSettles ==
  /\ chat.op.kind = "send" /\ chat.op.pc = "reloading"
  /\ \E res \in Outcomes("op") :
       chat' = [chat EXCEPT !.messagesFor = IF res.ok THEN chat.op.id ELSE 0,
                            !.op = NoOp,
                            !.busy = FALSE,
                            !.text = ComposerAfterSend(chat.text, chat.op.failed),
                            !.done = [kind |-> IF chat.op.failed THEN "send-failed"
                                               ELSE "send",
                                      id |-> chat.op.id, result |-> "resolved"]]
  /\ req' = [req EXCEPT !["op"] = IdleReq]
  /\ UNCHANGED <<rag, theme, ret, storage, actor, token, timerCurrent, timers, rt, location, lastNav,
                 si, sa, lo, up>>

(***************************************************************************)
(* api/admin.ts uploadDocuments                                            *)
(***************************************************************************)
MaxFiles == 2

FileLists == UNION {[1..n -> FileNames] : n \in 0..MaxFiles}

UploadOk(f) == [ok |-> TRUE, name |-> f, error |-> ""]

\* {ok: false, filename, error}: the message without its "METHOD url: " prefix
UploadErr(f, res) ==
  [ok |-> FALSE, name |-> f, error |-> IF res.status = 0 THEN "network" ELSE "http"]

\* files.map(f => http.postForm(...)): every file is posted before any settles
UploadNextAll(files, settled) ==
  IF settled = 0 THEN [i \in 1..Len(files) |-> i] ELSE <<>>

\* the positions posted once `settled` results are in: the for-of loop awaits
\* each postForm, so the next file alone, and none after the last
UploadNext(files, settled) ==
  IF settled < Len(files) THEN <<settled + 1>> ELSE <<>>

\* uploadDocuments(files): the loop posts the first file, or returns {items: []}
UploadCall ==
  /\ up.pc # "posting"
  /\ \E files \in FileLists :
       /\ up' = [IdleUp EXCEPT !.files = files,
                               !.sent = UploadNext(files, 0),
                               !.inflight = Range(UploadNext(files, 0)),
                               !.pc = IF Len(files) = 0 THEN "done" ELSE "posting"]
       /\ req' = [req EXCEPT !["upload"] =
                    IF Len(files) = 0 THEN IdleReq
                    ELSE NewReq("POST", "/admin/rag-documents/", storage.access_token)]
  /\ UNCHANGED <<rag, theme, ret, storage, actor, token, timerCurrent, timers, rt, location, lastNav,
                 si, sa, lo, chat>>

\* a loop body without try/catch: a rejected postForm rejects the whole call
UploadStepThrowing(res) ==
  LET f == up.files[Len(up.items) + 1]
      more == res.ok /\ Len(up.items) + 1 < Len(up.files)
  IN /\ up' = [up EXCEPT !.items = IF res.ok THEN Append(@, UploadOk(f)) ELSE @,
                         !.served = Append(@, res.ok),
                         !.threw = ~res.ok,
                         !.pc = IF more THEN "posting" ELSE "done"]
     /\ req' = [req EXCEPT !["upload"] =
                  IF more THEN NewReq("POST", "/admin/rag-documents/", storage.access_token)
                  ELSE IdleReq]

\* one loop iteration settles: the result of file f is pushed, then the next
\* file is posted or {items} is returned
UploadStep(res) ==
  LET f == up.files[Len(up.items) + 1]
      more == Len(up.items) + 1 < Len(up.files)
  IN /\ up' = [up EXCEPT !.items = Append(@, IF res.ok THEN UploadOk(f)
                                                ELSE UploadErr(f, res)),
                         !.served = Append(@, res.ok),
                         !.sent = @ \o UploadNext(up.files, Len(up.items) + 1),
                         !.inflight = (@ \ {Len(up.items) + 1})
                                        \cup Range(UploadNext(up.files, Len(up.items) + 1)),
                         !.pc = IF more THEN "posting" ELSE "done"]
     /\ req' = [req EXCEPT !["upload"] =
                  IF more THEN NewReq("POST", "/admin/rag-documents/", storage.access_token)
                  ELSE IdleReq]

UploadFileSettles ==
  /\ up.pc = "posting"
  /\ \E res \in Outcomes("upload") : UploadStep(res)
  /\ UNCHANGED <<rag, theme, ret, storage, actor, token, timerCurrent, timers, rt, location, lastNav,
                 si, sa, lo, chat>>

(***************************************************************************)
(* pages/admin/RagDocuments.tsx: staging and uploading files               *)
(***************************************************************************)
MaxUploads == 2

MaxStagings == 1

RECURSIVE MergeFiles(_, _)
\* the Map of onFilesSelected: the files of prev, then those of incoming that
\* are not among them, each once
MergeFiles(prev, incoming) ==
  IF incoming = <<>> THEN prev
  ELSE MergeFiles(IF InList(prev, Head(incoming)) THEN prev
                  ELSE Append(prev, Head(incoming)), Tail(incoming))

\* onFilesSelected: the picker returns files
RagSelect ==
  /\ \E incoming \in FileLists \ {<<>>} :
       LET merged == MergeFiles(rag.selected, incoming)
           new == {f \in FileNames : InList(merged, f) /\ ~InList(rag.selected, f)}
       IN /\ \A f \in new : rag.staged[f] < MaxStagings
          /\ merged # rag.selected
          /\ rag' = [rag EXCEPT !.selected = merged,
                                !.staged = [f \in FileNames |->
                                              IF f \in new THEN @[f] + 1 ELSE @[f]]]
  /\ UNCHANGED <<theme, ret, storage, actor, token, timerCurrent, timers, rt, location, lastNav,
                 req, si, sa, lo, up, chat>>

\* removeFileAt(idx)
RagRemoveAt ==
  /\ \E idx \in 1..Len(rag.selected) :
       rag' = [rag EXCEPT !.selected =
                 SubSeq(@, 1, idx - 1) \o SubSeq(@, idx + 1, Len(@))]
  /\ UNCHANGED <<theme, ret, storage, actor, token, timerCurrent, timers, rt, location, lastNav,
                 req, si, sa, lo, up, chat>>

\* clearAll, behind a button that is disabled without staged files
RagClearAll ==
  /\ rag.selected # <<>>
  /\ rag' = [rag EXCEPT !.selected = <<>>]
  /\ UNCHANGED <<theme, ret, storage, actor, token, timerCurrent, timers, rt, location, lastNav,
                 req, si, sa, lo, up, chat>>

\* the Upload Files button is enabled: disabled={selected.length === 0}
RagCanUpload == rag.selected # <<>>

\* onUpload: uploadDocuments(selected) posts its first file
RagUploadClick ==
  /\ RagCanUpload
  /\ Len(rag.calls) < MaxUploads
  /\ rag' = [rag EXCEPT !.calls = Append(@, [files |-> rag.selected, items |-> <<>>]),
                        !.posted[rag.selected[1]] = @ + 1]
  /\ UNCHANGED <<theme, ret, storage, actor, token, timerCurrent, timers, rt, location, lastNav,
                 req, si, sa, lo, up, chat>>

\* the request in flight of an onUpload call settles: the next file of the
\* call is posted, or uploadDocuments returns, the lines of its items are
\* put before the log and the selection is emptied
RagUploadSettles ==
  /\ \E k \in 1..Len(rag.calls), ok \in BOOLEAN :
       LET c == rag.calls[k]
           items == Append(c.items, [name |-> c.files[Len(c.items) + 1], ok |-> ok])
       IN IF Len(items) < Len(c.files)
            THEN rag' = [rag EXCEPT !.calls[k].items = items,
                                    !.posted[c.files[Len(items) + 1]] = @ + 1]
            ELSE rag' = [rag EXCEPT !.calls = SubSeq(@, 1, k - 1) \o SubSeq(@, k + 1, Len(@)),
                                    !.log = items \o @,
                                    !.selected = <<>>]
  /\ UNCHANGED <<theme, ret, storage, actor, token, timerCurrent, timers, rt, location, lastNav,
                 req, si, sa, lo, up, chat>>

(***************************************************************************)
(* Specification: sign-in, logout and token refresh in one tab             *)
(***************************************************************************)

(***************************************************************************)
\* a browser without stored session
InitFresh ==
  /\ storage = [actor |-> Null, access_token |-> Null]
  /\ actor = Null
  /\ token = Null
  /\ timerCurrent = 0
  /\ timers = {}
  /\ rt = 0
  /\ lastNav = NoNav
  /\ req = [c \in Callers |-> IdleReq]
  /\ si = IdleSignIn
  /\ sa = IdleSA
  /\ lo = "idle"
  /\ ret = NoCall
  /\ theme = FreshTheme
  /\ rag = IdleRag
  /\ up = IdleUp
  /\ chat = IdleChat

Init == InitFresh /\ location = SignInPath

\* the page is loaded at the sign-in URL or at a portal URL
Load == \E p \in {SignInPath, <<"user", "chat">>} : LoadAt(p)

AppCallers == {"signin", "logout"}

Response401 == \E c \in AppCallers : DoFetch401(c)

RefreshedRetry == \E c \in AppCallers : DoFetchRefreshed(c)

Next ==
  \/ Load
  \/ Go
  \/ RouteRedirect
  \/ SignInSubmit
  \/ SignInLoginOk
  \/ SignInLoginFail
  \/ SignInProfileOk
  \/ SignInProfileFail
  \/ LogoutClick
  \/ LogoutSettles
  \/ TimerFire
  \/ TimerRefreshSettles
  \/ Response401
  \/ RefreshedRetry

Spec == Init /\ [][Next]_vars

(***************************************************************************)
(* Specification: the router under every stored session                    *)
(***************************************************************************)
\* what localStorage can hold when the page is loaded: nothing, the session
\* setAuth stored (any role string the profile carried), with or without
\* its token (a failed sign-in removes the token only)
StoredSessions ==
  {[actor |-> a, access_token |-> t] : a \in Roles, t \in LoginTokens \cup {Null}}

InitStored ==
  /\ storage \in StoredSessions
  /\ actor = storage.actor
  /\ token = storage.access_token
  /\ timerCurrent = 0
  /\ timers = {}
  /\ rt = 0
  /\ lastNav = NoNav
  /\ req = [c \in Callers |-> IdleReq]
  /\ si = IdleSignIn
  /\ sa = IdleSA
  /\ lo = "idle"
  /\ ret = NoCall
  /\ theme = FreshTheme
  /\ rag = IdleRag
  /\ up = IdleUp
  /\ chat = IdleChat

InitRoutes == InitStored /\ location \in LoadPaths

\* the page is loaded at any URL
LoadAny == \E p \in LoadPaths : LoadAt(p)

NextRoutes ==
  \/ LoadAny
  \/ Go
  \/ RouteRedirect

SpecRoutes == InitRoutes /\ [][NextRoutes]_vars

(***************************************************************************)
(* Specification: the super-admin login page                               *)
(***************************************************************************)
InitSA == InitStored /\ location = SuperAdminPath

LoadSA == LoadAt(SuperAdminPath)

Response401SA == DoFetch401("sa")

RefreshedRetrySA == DoFetchRefreshed("sa")

NextSA ==
  \/ LoadSA
  \/ RouteRedirect
  \/ SuperAdminSubmit
  \/ SuperAdminLoginOk
  \/ SuperAdminLoginFail
  \/ SuperAdminProfileOk
  \/ SuperAdminProfileFail
  \/ Response401SA
  \/ RefreshedRetrySA

SpecSA == InitSA /\ [][NextSA]_vars

(***************************************************************************)
(* Specification: a chat page of a signed-in user or admin                 *)
(***************************************************************************)
\* session lists without duplicates
SessionLists ==
  {l \in UNION {[1..n -> SessionIds] : n \in 0..MaxSessions} :
     \A i, j \in 1..Len(l) : i # j => l[i] # l[j]}

ChatPaths(base) == {Prefix(base)} \cup {SessionPath(base, i) : i \in SessionIds}

\* the hook as mounted by a page load at path p with server list l: the boot
\* effect has called listSessions() and the [sid] effect loadMessages(sid)
MountedChat(base, p, l) ==
  [IdleChat EXCEPT !.base = base, !.server = l, !.boot = "listing", !.pageBoot = "listing",
                   !.bootSid = SidOf(p, base), !.loadSid = SidOf(p, base)]

MountedReq(base, p, tok) ==
  [c \in Callers |->
     IF c = "boot" THEN NewReq("GET", "/chat/sessions", tok)
     ELSE IF c = "load" /\ SidOf(p, base) # 0
       THEN NewReq("GET", "/chat/sessions/id/messages", tok)
       ELSE IdleReq]

InitChat ==
  /\ \E base \in {"user", "admin"} :
       /\ storage = [actor |-> base, access_token |-> "t1"]
       /\ \E p \in ChatPaths(base), l \in SessionLists :
            /\ location = p
            /\ chat = MountedChat(base, p, l)
            /\ req = MountedReq(base, p, "t1")
  /\ actor = storage.actor
  /\ token = storage.access_token
  /\ timerCurrent = 0
  /\ timers = {}
  /\ rt = 0
  /\ lastNav = NoNav
  /\ si = IdleSignIn
  /\ sa = IdleSA
  /\ lo = "idle"
  /\ ret = NoCall
  /\ theme = FreshTheme
  /\ rag = IdleRag
  /\ up = IdleUp

\* the chat API answers 2xx, 5xx or not at all here; the 401 path of doFetch
\* is exercised by Spec, SpecSA and SpecUpload
NextChat ==
  \/ BootOk
  \/ BootFail
  \/ EffectLoadSettles
  \/ Open
  \/ CreateCall
  \/ CreateOk
  \/ OpRejects
  \/ RemoveCall
  \/ RemoveOk
  \/ RenameCall
  \/ RenameOk
  \/ Type
  \/ ComposerSend
  \/ SendSettles
  \/ ReloadSettles

SpecChat == InitChat /\ [][NextChat]_vars

(***************************************************************************)
(* Specification: the sidebar's session list next to the chat page's       *)
(***************************************************************************)
NextSidebar ==
  \/ BootOk
  \/ PageBootOk
  \/ EffectLoadSettles
  \/ CreateCall
  \/ CreateOk
  \/ OpRejects
  \/ RemoveCall
  \/ RemoveOk
  \/ RenameCall
  \/ RenameOk

SpecSidebar == InitChat /\ [][NextSidebar]_vars

(***************************************************************************)
(* Specification: an admin uploading RAG documents                         *)
(***************************************************************************)
InitUpload ==
  /\ storage = [actor |-> "admin", access_token |-> "t1"]
  /\ actor = "admin"
  /\ token = "t1"
  /\ timerCurrent = 0
  /\ timers = {}
  /\ rt = 0
  /\ location = <<"admin", "admin">>
  /\ lastNav = NoNav
  /\ req = [c \in Callers |-> IdleReq]
  /\ si = IdleSignIn
  /\ sa = IdleSA
  /\ lo = "idle"
  /\ ret = NoCall
  /\ theme = FreshTheme
  /\ rag = IdleRag
  /\ up = IdleUp
  /\ chat = IdleChat

Response401Upload == DoFetch401("upload")

RefreshedRetryUpload == DoFetchRefreshed("upload")

NextUpload ==
  \/ UploadCall
  \/ UploadFileSettles
  \/ Response401Upload
  \/ RefreshedRetryUpload

SpecUpload == InitUpload /\ [][NextUpload]_vars

TypeOK ==
  /\ storage.actor \in Roles
  /\ storage.access_token \in Tokens \cup {Null}
  /\ actor \in Roles
  /\ token \in Tokens \cup {Null}
  /\ Cardinality(timers) <= 1

(***************************************************************************)
(* api/admin.ts downloadDocument                                           *)
(***************************************************************************)
\* paths, as sequences of characters
StaticPrefix == <<"/", "s", "t", "a", "t", "i", "c", "/">>

DocsPath == <<"d", "o", "c", "s", "/", "a", ".", "p", "d", "f">>

\* file_path values of a document's metadata; <<>> is an absent, null or
\* empty file_path
FilePaths ==
  {<<>>, DocsPath, <<"/">> \o DocsPath, <<"/", "/">> \o DocsPath,
   StaticPrefix \o DocsPath, <<"/", "s", "t", "a", "t", "i", "c">>,
   <<"s", "t", "a", "t", "i", "c", "/", "a">>}

\* p.startsWith(pre)
StartsWith(p, pre) == Len(p) >= Len(pre) /\ SubSeq(p, 1, Len(pre)) = pre

RECURSIVE StripSlashes(_)
\* p.replace(/^\/+/, '')
StripSlashes(p) == IF Len(p) > 0 /\ p[1] = "/" THEN StripSlashes(Tail(p)) ELSE p

\* a normalization that keeps the leading slashes
NormalizeKeepSlashes(filePath) ==
  IF StartsWith(filePath, StaticPrefix) THEN filePath ELSE StaticPrefix \o filePath

\* filePath.startsWith('/static/') ? filePath : `/static/${...}`
Normalize(filePath) ==
  IF StartsWith(filePath, StaticPrefix) THEN filePath
  ELSE StaticPrefix \o StripSlashes(filePath)

\* downloadDocument(documentId): the metadata request is sent
DownloadCall ==
  /\ IF ret.fn = "downloadDocument" THEN ret.pc = "done" ELSE TRUE
  /\ ret' = [fn |-> "downloadDocument", pc |-> "meta", metaOk |-> FALSE, path |-> <<>>,
             fetched |-> <<>>, static |-> "none", out |-> "pending"]
  /\ req' = [req EXCEPT !["download"] =
               NewReq("GET", "/admin/rag-documents/id", storage.access_token)]
  /\ UNCHANGED <<rag, theme, storage, actor, token, timerCurrent, timers, rt, location, lastNav,
                 si, sa, lo, up, chat>>

\* http.get of the metadata rejected: downloadDocument rejects with its error
DownloadMetaFails ==
  /\ ret.fn = "downloadDocument" /\ ret.pc = "meta"
  /\ \E res \in Outcomes("download") : ~res.ok
  /\ ret' = [ret EXCEPT !.pc = "done", !.out = "meta request failed"]
  /\ req' = [req EXCEPT !["download"] = IdleReq]
  /\ UNCHANGED <<rag, theme, storage, actor, token, timerCurrent, timers, rt, location, lastNav,
                 si, sa, lo, up, chat>>

\* the metadata arrived with file_path fp: without one the call throws,
\* else the static file is fetched from the normalized URL
DownloadMetaOk ==
  /\ ret.fn = "downloadDocument" /\ ret.pc = "meta"
  /\ \E res \in Outcomes("download") : res.ok
  /\ \E fp \in FilePaths :
       ret' = IF fp = <<>>
                THEN [ret EXCEPT !.pc = "done", !.metaOk = TRUE,
                                 !.out = "No file_path available for this document"]
                ELSE [ret EXCEPT !.pc = "static", !.metaOk = TRUE, !.path = fp,
                                 !.fetched = Append(@, Normalize(fp))]
  /\ req' = [req EXCEPT !["download"] = IdleReq]
  /\ UNCHANGED <<rag, theme, storage, actor, token, timerCurrent, timers, rt, location, lastNav,
                 si, sa, lo, up, chat>>

\* the static fetch settled: a blob for 2xx, Error(`HTTP ${status}`) for any
\* other status, the fetch's own rejection when the transport failed
DownloadStaticSettles ==
  /\ ret.fn = "downloadDocument" /\ ret.pc = "static"
  /\ \E st \in {"2xx", "non2xx", "neterr"} :
       ret' = [ret EXCEPT !.pc = "done", !.static = st,
                          !.out = CASE st = "2xx" -> "blob"
                                    [] st = "non2xx" -> "HTTP status"
                                    [] OTHER -> "fetch rejected"]
  /\ UNCHANGED <<rag, theme, storage, actor, token, timerCurrent, timers, rt, location, lastNav,
                 req, si, sa, lo, up, chat>>

(***************************************************************************)
(* Specification: the proactive refresh of a signed-in session             *)
(***************************************************************************)
\* a session as setAuth(a, "t1", e) left it, on the role's landing page
InitRefresh ==
  /\ \E a \in Actors, e \in ExpiresVals \cup {DefaultExpires} :
       LET sch == ScheduleRefresh(0, {}, e)
       IN /\ storage = [actor |-> a, access_token |-> "t1"]
          /\ timerCurrent = sch.current
          /\ timers = sch.pending
          /\ location = Settle(HomePath(a), a, MaxRedirects)
  /\ actor = storage.actor
  /\ token = storage.access_token
  /\ rt = 0
  /\ lastNav = NoNav
  /\ req = [c \in Callers |-> IdleReq]
  /\ si = IdleSignIn
  /\ sa = IdleSA
  /\ lo = "idle"
  /\ ret = NoCall
  /\ theme = FreshTheme
  /\ rag = IdleRag
  /\ up = IdleUp
  /\ chat = IdleChat

NextRefresh ==
  \/ TimerFire
  \/ TimerRefreshSettlesAny

SpecRefresh == InitRefresh /\ [][NextRefresh]_vars

(***************************************************************************)
(* Specification: refreshes of a signed-in session, by timer and by 401    *)
(***************************************************************************)
\* doFetch of an upload: tryRefresh() returned true, under any answer of the
\* refresh endpoint; the retry carries what localStorage now holds
UploadRefreshedAny ==
  /\ req["upload"].pc = "refresh"
  /\ \E r \in RefreshResponsesAll :
       /\ RefreshSucceeds(r)
       /\ TryRefreshApply(r)
       /\ ret' = [fn |-> "tryRefresh", arg |-> r, out |-> TryRefresh(r)]
       /\ req' = [req EXCEPT !["upload"].pc = "fetch2", !["upload"].fetches = @ + 1,
                             !["upload"].auth = Stringify(r.access_token)]
  /\ UNCHANGED <<rag, theme, actor, rt, location, lastNav, si, sa, lo, up, chat>>

NextRefreshed ==
  \/ TimerFire
  \/ TimerRefreshSettlesAny
  \/ UploadCall
  \/ UploadFileSettles
  \/ Response401Upload
  \/ UploadRefreshedAny

SpecRefreshed == InitRefresh /\ [][NextRefreshed]_vars

(***************************************************************************)
(* Specification: login() on every response body                           *)
(***************************************************************************)
InitLogin ==
  /\ storage = [actor |-> Null, access_token |-> Null]
  /\ actor = Null
  /\ token = Null
  /\ timerCurrent = 0
  /\ timers = {}
  /\ rt = 0
  /\ location = SignInPath
  /\ lastNav = NoNav
  /\ req = [c \in Callers |-> IdleReq]
  /\ si = IdleSignIn
  /\ sa = IdleSA
  /\ lo = "idle"
  /\ ret \in {LoginCalled(d) : d \in LoginData}
  /\ theme = FreshTheme
  /\ rag = IdleRag
  /\ up = IdleUp
  /\ chat = IdleChat

NextLogin == LoginReturns

SpecLogin == InitLogin /\ [][NextLogin]_vars

(***************************************************************************)
(* Specification: an admin downloads documents                             *)
(***************************************************************************)
Response401Download == DoFetch401("download")

RefreshedRetryDownload == DoFetchRefreshed("download")

NextDownload ==
  \/ DownloadCall
  \/ DownloadMetaFails
  \/ DownloadMetaOk
  \/ DownloadStaticSettles
  \/ Response401Download
  \/ RefreshedRetryDownload

SpecDownload == InitUpload /\ [][NextDownload]_vars

(***************************************************************************)
(* ensureOk: the error of a response that is not ok                        *)
(***************************************************************************)
MaxDetail == 2

\* a segment of a loc array: a field name, or an index (num)
Seg(s, num) == [s |-> s, num |-> num]

\* d.loc: absent, an array of segments, or a bare value
NoLoc == [kind |-> "absent", segs |-> <<>>]

Locs ==
  {NoLoc,
   [kind |-> "array", segs |-> <<>>],
   [kind |-> "array", segs |-> <<Seg("body", FALSE), Seg("email", FALSE)>>],
   [kind |-> "array", segs |-> <<Seg("body", FALSE), Seg("ids", FALSE), Seg("0", TRUE)>>],
   [kind |-> "array", segs |-> <<Seg("body", FALSE), Seg("ids", FALSE), Seg("1", TRUE)>>],
   [kind |-> "value", segs |-> <<Seg("email", FALSE)>>]}

\* the entries of a detail array: msg and message are strings or absent
Entries ==
  {[loc |-> l, msg |-> m.msg, message |-> m.message] :
     l \in Locs,
     m \in {[msg |-> "invalid", message |-> Null], [msg |-> "required", message |-> Null],
            [msg |-> Null, message |-> "bad"], [msg |-> Null, message |-> Null]}}

\* obj.detail: absent, a string, or an array of entries
Details ==
  {[kind |-> "absent", s |-> "", entries |-> <<>>],
   [kind |-> "string", s |-> "Not allowed", entries |-> <<>>]}
  \cup {[kind |-> "array", s |-> "", entries |-> e] :
          e \in UNION {[1..n -> Entries] : n \in 0..MaxDetail}}

\* a response body: text() rejects, or yields text that JSON.parse rejects
\* (the empty text included), or yields the text of a JSON value
ErrorBodies ==
  {[kind |-> "unreadable", txt |-> "", detail |-> CHOOSE d \in Details : d.kind = "absent",
    error |-> Null]}
  \cup {[kind |-> "text", txt |-> t, detail |-> CHOOSE d \in Details : d.kind = "absent",
         error |-> Null] : t \in {"", "Bad Gateway"}}
  \cup {[kind |-> "json", txt |-> "{raw}", detail |-> d, error |-> e] :
          d \in Details, e \in {Null, "boom"}}

Statuses == {200, 422, 500}

\* JSON.stringify(d)
JsonOf(d) == "{entry}"

\* loc ? ... : m, for the last segment of a loc: '' and 0 are falsy
LocShown(seg) == IF seg.num THEN seg.s # "0" ELSE seg.s # ""

\* the callback of obj.detail.map
RenderEntry(d) ==
  LET m == IF Truthy(d.msg) THEN d.msg
           ELSE IF Truthy(d.message) THEN d.message ELSE JsonOf(d)
  IN IF d.loc.segs # <<>> /\ LocShown(d.loc.segs[Len(d.loc.segs)])
       THEN d.loc.segs[Len(d.loc.segs)].s \o ": " \o m
       ELSE m

RECURSIVE Join(_, _)
\* parts.join(sep)
Join(parts, sep) ==
  IF parts = <<>> THEN ""
  ELSE IF Len(parts) = 1 THEN parts[1]
  ELSE parts[1] \o sep \o Join(Tail(parts), sep)

\* the message ensureOk composes from a response that is not ok
ErrorMessage(status, body) ==
  LET http == "HTTP " \o ToString(status)
  IN CASE body.kind = "unreadable" -> http
       [] body.kind = "text" -> IF body.txt # "" THEN body.txt ELSE http
       [] body.kind = "json" ->
            IF body.detail.kind = "array"
              THEN Join([i \in 1..Len(body.detail.entries) |->
                           RenderEntry(body.detail.entries[i])], "; ")
            ELSE IF body.detail.kind = "string" THEN body.detail.s
            ELSE IF body.error # Null THEN body.error
            ELSE body.txt

\* ensureOk(url, method, res): returns for an ok response, else throws
\* `${method} ${url}: ${message}`
EnsureOk(url, method, status, body) ==
  IF status = 200
    THEN [threw |-> FALSE, message |-> ""]
    ELSE [threw |-> TRUE,
          message |-> method \o " " \o url \o ": " \o ErrorMessage(status, body)]

\* ensureOk is called with a response
EnsureOkCalled(url, method, status, body) ==
  [fn |-> "ensureOk-called", url |-> url, method |-> method, status |-> status,
   body |-> body, out |-> [threw |-> FALSE, message |-> ""]]

\* ensureOk returns or throws
EnsureOkReturns ==
  /\ ret.fn = "ensureOk-called"
  /\ ret' = [ret EXCEPT !.fn = "ensureOk",
                        !.out = EnsureOk(ret.url, ret.method, ret.status, ret.body)]
  /\ UNCHANGED <<rag, theme, storage, actor, token, timerCurrent, timers, rt, location, lastNav,
                 req, si, sa, lo, up, chat>>

(***************************************************************************)
(* Specification: ensureOk on every response                               *)
(***************************************************************************)
InitEnsureOk ==
  /\ storage = [actor |-> Null, access_token |-> Null]
  /\ actor = Null
  /\ token = Null
  /\ timerCurrent = 0
  /\ timers = {}
  /\ rt = 0
  /\ location = SignInPath
  /\ lastNav = NoNav
  /\ req = [c \in Callers |-> IdleReq]
  /\ si = IdleSignIn
  /\ sa = IdleSA
  /\ lo = "idle"
  /\ ret \in {EnsureOkCalled(u, m, st, b) :
                u \in {"/auth/login"}, m \in {"POST"}, st \in Statuses, b \in ErrorBodies}
  /\ theme = FreshTheme
  /\ rag = IdleRag
  /\ up = IdleUp
  /\ chat = IdleChat

NextEnsureOk == EnsureOkReturns

SpecEnsureOk == InitEnsureOk /\ [][NextEnsureOk]_vars

(***************************************************************************)
(* doFetch: what a call returns or throws                                  *)
(***************************************************************************)
\* init.method as http.get, post, postForm, patch and del set it
InitMethods == {"GET", "POST", "PATCH", "DELETE"}

\* init.method || 'GET'
MethodOf(m) == IF m = Null THEN "GET" ELSE m

FetchUrls == {"/auth/login", "/chat/sessions", "/admin/rag-documents/"}

\* err.message of a rejected fetch
FetchErrors == {"Failed to fetch", ""}

NetworkErrorText == "Network error (is the backend running / CORS ok?)"

\* the bodies of the answers to a doFetch call
FetchBodies == {b \in ErrorBodies : b.kind # "json" \/ b.detail.kind # "array"}

\* res: the answer to the first fetch, held while tryRefresh() is awaited
NoRes == [status |-> 0, body |-> CHOOSE b \in ErrorBodies : b.kind = "unreadable"]

NoOut == [threw |-> FALSE, kind |-> "none", cause |-> "", message |-> ""]

\* ensureOk(url, method, res) as the last statement before jsonMaybe(res)
Ensured(r, status, body) ==
  LET e == EnsureOk(r.url, MethodOf(r.method), status, body)
  IN [threw |-> e.threw, kind |-> IF e.threw THEN "http" ELSE "none", cause |-> "",
      message |-> e.message]

\* a caller calls doFetch(url, init); _retry is never passed
DoFetchCall ==
  /\ IF ret.fn = "doFetch" THEN ret.pc = "done" ELSE ret.fn = "none"
  /\ \E m \in InitMethods, u \in FetchUrls :
       ret' = [fn |-> "doFetch", pc |-> "fetch1", method |-> m, url |-> u, fetches |-> 1,
               res |-> NoRes, out |-> NoOut]
  /\ UNCHANGED <<rag, theme, storage, actor, token, timerCurrent, timers, rt, location, lastNav,
                 req, si, sa, lo, up, chat>>

\* the first fetch rejects: the catch block throws the prefixed error
DoFetchRejects ==
  /\ ret.fn = "doFetch" /\ ret.pc = "fetch1"
  /\ \E e \in FetchErrors :
       ret' = [ret EXCEPT !.pc = "done",
                 !.out = [threw |-> TRUE, kind |-> "network", cause |-> e,
                          message |-> MethodOf(ret.method) \o " " \o ret.url \o ": "
                                      \o (IF e # "" THEN e ELSE NetworkErrorText)]]
  /\ UNCHANGED <<rag, theme, storage, actor, token, timerCurrent, timers, rt, location, lastNav,
                 req, si, sa, lo, up, chat>>

\* the first fetch is answered: a 401 awaits tryRefresh(), any other status
\* goes through ensureOk
DoFetchAnswered ==
  /\ ret.fn = "doFetch" /\ ret.pc = "fetch1"
  /\ \E st \in Statuses \cup {401}, b \in FetchBodies :
       ret' = IF st = 401
                THEN [ret EXCEPT !.pc = "refresh", !.res = [status |-> st, body |-> b]]
                ELSE [ret EXCEPT !.pc = "done", !.out = Ensured(ret, st, b)]
  /\ UNCHANGED <<rag, theme, storage, actor, token, timerCurrent, timers, rt, location, lastNav,
                 req, si, sa, lo, up, chat>>

\* tryRefresh() settles: true leads to the retried fetch, false to ensureOk
\* of the 401 answer
DoFetchRefreshSettles ==
  /\ ret.fn = "doFetch" /\ ret.pc = "refresh"
  /\ \E refreshed \in BOOLEAN :
       ret' = IF refreshed
                THEN [ret EXCEPT !.pc = "fetch2", !.fetches = 2, !.res = NoRes]
                ELSE [ret EXCEPT !.pc = "done", !.res = NoRes,
                                 !.out = Ensured(ret, ret.res.status, ret.res.body)]
  /\ UNCHANGED <<rag, theme, storage, actor, token, timerCurrent, timers, rt, location, lastNav,
                 req, si, sa, lo, up, chat>>

\* the retried fetch rejects: no catch block surrounds it, the rejection of
\* fetch leaves doFetch as it is
DoFetchRetryRejects ==
  /\ ret.fn = "doFetch" /\ ret.pc = "fetch2"
  /\ \E e \in FetchErrors :
       ret' = [ret EXCEPT !.pc = "done",
                 !.out = [threw |-> TRUE, kind |-> "network", cause |-> e, message |-> e]]
  /\ UNCHANGED <<rag, theme, storage, actor, token, timerCurrent, timers, rt, location, lastNav,
                 req, si, sa, lo, up, chat>>

\* the retried fetch is answered: ensureOk, whatever the status
DoFetchRetryAnswered ==
  /\ ret.fn = "doFetch" /\ ret.pc = "fetch2"
  /\ \E st \in Statuses \cup {401}, b \in FetchBodies :
       ret' = [ret EXCEPT !.pc = "done", !.out = Ensured(ret, st, b)]
  /\ UNCHANGED <<rag, theme, storage, actor, token, timerCurrent, timers, rt, location, lastNav,
                 req, si, sa, lo, up, chat>>

(***************************************************************************)
(* Specification: calls of doFetch                                         *)
(***************************************************************************)
InitDoFetch ==
  /\ storage = [actor |-> "user", access_token |-> "t1"]
  /\ actor = storage.actor
  /\ token = storage.access_token
  /\ timerCurrent = 0
  /\ timers = {}
  /\ rt = 0
  /\ location = Settle(HomePath("user"), "user", MaxRedirects)
  /\ lastNav = NoNav
  /\ req = [c \in Callers |-> IdleReq]
  /\ si = IdleSignIn
  /\ sa = IdleSA
  /\ lo = "idle"
  /\ ret = NoCall
  /\ theme = FreshTheme
  /\ rag = IdleRag
  /\ up = IdleUp
  /\ chat = IdleChat

NextDoFetch ==
  \/ DoFetchCall
  \/ DoFetchRejects
  \/ DoFetchAnswered
  \/ DoFetchRefreshSettles
  \/ DoFetchRetryRejects
  \/ DoFetchRetryAnswered

SpecDoFetch == InitDoFetch /\ [][NextDoFetch]_vars

(***************************************************************************)
(* The chat pages' buildContent and the way of a text to the request       *)
(***************************************************************************)
\* texts are sequences of pieces: a white-space character, or a string that
\* neither starts nor ends with white space
MaxText == 3

Space == {" ", "\n"}

\* what the user can leave in the composer's single-line field
TypedTexts == UNION {[1..n -> {" ", "q", "r"}] : n \in 0..MaxText}

\* WidgetState
WidgetStates == [useDocuments : BOOLEAN, answerStyle : {"default", "short", "detailed"}]

DocsLine == "Use the uploaded company documents as primary context when answering."

GeneralLine ==
  "Answer using your general knowledge. Do not rely on uploaded company documents."

\* the source's en dash between 2 and 3 is written as a hyphen
ShortLine == "Keep the answer very short (2-3 sentences)."

\* the user page's and the admin page's instruction for detailed answers
DetailedLine(base) ==
  IF base = "user"
    THEN "Provide a detailed, step-by-step explanation with any important caveats."
    ELSE "Provide a detailed, step-by-step explanation with any important caveats, "
         \o "suitable for an admin reviewing user queries."

RECURSIVE TrimStart(_)
TrimStart(t) == IF t # <<>> /\ Head(t) \in Space THEN TrimStart(Tail(t)) ELSE t

RECURSIVE TrimEnd(_)
TrimEnd(t) ==
  IF t # <<>> /\ t[Len(t)] \in Space THEN TrimEnd(SubSeq(t, 1, Len(t) - 1)) ELSE t

\* String.prototype.trim
JsTrim(t) == TrimEnd(TrimStart(t))

RECURSIVE JoinPieces(_)
\* pieces.join('\n\n')
JoinPieces(pieces) ==
  IF pieces = <<>> THEN <<>>
  ELSE IF Len(pieces) = 1 THEN pieces[1]
  ELSE pieces[1] \o <<"\n", "\n">> \o JoinPieces(Tail(pieces))

\* buildContent without the branch on answerStyle
BuildContentNoStyle(raw, widgets, base) ==
  JoinPieces(<<IF widgets.useDocuments THEN <<DocsLine>> ELSE <<GeneralLine>>, raw>>)

\* buildContent(raw, widgets) of the page of portal base
BuildContent(raw, widgets, base) ==
  LET context == IF widgets.useDocuments THEN <<DocsLine>> ELSE <<GeneralLine>>
      style == CASE widgets.answerStyle = "short" -> << <<ShortLine>> >>
                 [] widgets.answerStyle = "detailed" -> << <<DetailedLine(base)>> >>
                 [] OTHER -> <<>>
  IN JoinPieces(<<context>> \o style \o <<raw>>)

\* content?.trim() || '(message)' of the hook's send, and
\* (content ?? '').trim() || '(message)' of sendMessage
TrimOrPlaceholder(content) ==
  IF JsTrim(content) = <<>> THEN <<"(message)">> ELSE JsTrim(content)

\* the composer's Send is pressed on a page of portal base
HandleSendCalled(base, widgets, typed) ==
  [fn |-> "handleSend-called", base |-> base, widgets |-> widgets, typed |-> typed,
   sent |-> FALSE, raw |-> <<>>, built |-> <<>>, content |-> <<>>]

\* ChatComposer.handleSend with an active session: nothing for a text that
\* trims to nothing; else onSend(trimmed), the page's buildContent, the hook's
\* send and sendMessage, which posts { content: text }
HandleSend ==
  /\ ret.fn = "handleSend-called"
  /\ LET trimmed == JsTrim(ret.typed)
         built == BuildContent(trimmed, ret.widgets, ret.base)
     IN ret' = IF trimmed = <<>>
                 THEN [ret EXCEPT !.fn = "handleSend"]
                 ELSE [ret EXCEPT !.fn = "handleSend", !.sent = TRUE, !.raw = trimmed,
                                  !.built = built,
                                  !.content = TrimOrPlaceholder(TrimOrPlaceholder(built))]
  /\ UNCHANGED <<rag, theme, storage, actor, token, timerCurrent, timers, rt, location, lastNav,
                 req, si, sa, lo, up, chat>>

(***************************************************************************)
(* Specification: a text sent from a chat page                             *)
(***************************************************************************)
InitContent ==
  /\ \E base \in {"user", "admin"} :
       /\ storage = [actor |-> base, access_token |-> "t1"]
       /\ location = SessionPath(base, 1)
       /\ \E w \in WidgetStates, t \in TypedTexts : ret = HandleSendCalled(base, w, t)
  /\ actor = storage.actor
  /\ token = storage.access_token
  /\ timerCurrent = 0
  /\ timers = {}
  /\ rt = 0
  /\ lastNav = NoNav
  /\ req = [c \in Callers |-> IdleReq]
  /\ si = IdleSignIn
  /\ sa = IdleSA
  /\ lo = "idle"
  /\ theme = FreshTheme
  /\ rag = IdleRag
  /\ up = IdleUp
  /\ chat = IdleChat

NextContent == HandleSend

SpecContent == InitContent /\ [][NextContent]_vars

(***************************************************************************)
(* components/Chat/ChatWindow.tsx: stripScaffold                           *)
(***************************************************************************)
\* a text the user can type that begins like a line of the scaffold
TypedPhrase == "Keep the answer very short"

\* what the user can leave in the composer's field, such a phrase included
DisplayTexts == UNION {[1..n -> {" ", "q", TypedPhrase}] : n \in 0..MaxText}

\* a drop list that lacks the prefix of the short-answer line
DropStartsWithNoShort ==
  << <<"Use the uploaded company documents as primary context when answering.">>,
     <<"Answer using your general knowledge.">>,
     <<"Provide a detailed, step-by-step explanation">>,
     <<"Provide a detailed, step-by-step explanation", " with any important caveats">> >>

\* dropStartsWith, each prefix as the pieces Words cuts it into
DropStartsWith ==
  << <<"Use the uploaded company documents as primary context when answering.">>,
     <<"Answer using your general knowledge.">>,
     <<"Keep the answer very short">>,
     <<"Provide a detailed, step-by-step explanation">>,
     <<"Provide a detailed, step-by-step explanation", " with any important caveats">> >>

\* the pieces of a piece of text, cut where a prefix of dropStartsWith can end
Words(piece) ==
  CASE piece = GeneralLine ->
         <<"Answer using your general knowledge.",
           " Do not rely on uploaded company documents.">>
    [] piece = ShortLine -> <<"Keep the answer very short", " (2-3 sentences).">>
    [] piece = DetailedLine("user") ->
         <<"Provide a detailed, step-by-step explanation", " with any important caveats",
           ".">>
    [] piece = DetailedLine("admin") ->
         <<"Provide a detailed, step-by-step explanation", " with any important caveats",
           ", suitable for an admin reviewing user queries.">>
    [] OTHER -> <<piece>>

RECURSIVE Spell(_)
\* the string the pieces ws spell
Spell(ws) == IF ws = <<>> THEN "" ELSE Head(ws) \o Spell(Tail(ws))

RECURSIVE Expand(_)
\* a text with every piece cut into its words
Expand(t) == IF t = <<>> THEN <<>> ELSE Words(Head(t)) \o Expand(Tail(t))

RECURSIVE SplitLines(_)
\* text.split(/\r?\n/); texts hold no carriage return here
SplitLines(t) ==
  IF \A i \in 1..Len(t) : t[i] # "\n" THEN <<t>>
  ELSE LET i == CHOOSE k \in 1..Len(t) : t[k] = "\n" /\ \A j \in 1..(k - 1) : t[j] # "\n"
       IN <<SubSeq(t, 1, i - 1)>> \o SplitLines(SubSeq(t, i + 1, Len(t)))

RECURSIVE JoinLines(_)
\* lines.join('\n')
JoinLines(lines) ==
  IF lines = <<>> THEN <<>>
  ELSE IF Len(lines) = 1 THEN lines[1]
  ELSE lines[1] \o <<"\n">> \o JoinLines(Tail(lines))

\* stripScaffold(text)
StripScaffold(text) ==
  LET split == SplitLines(Expand(text))
      trimmed == [i \in 1..Len(split) |-> JsTrim(split[i])]
      NonEmpty(ln) == ln # <<>>
      Kept(ln) == ~\E k \in 1..Len(DropStartsWith) : StartsWith(ln, DropStartsWith[k])
  IN JoinLines(SelectSeq(SelectSeq(trimmed, NonEmpty), Kept))

\* the message list renders the user message the server stored: the content
\* that was posted, through stripScaffold
RenderUserMessage ==
  /\ ret.fn = "handleSend" /\ ret.sent
  /\ ret' = [fn |-> "stripScaffold", base |-> ret.base, widgets |-> ret.widgets,
             raw |-> ret.raw, content |-> ret.content, shown |-> StripScaffold(ret.content)]
  /\ UNCHANGED <<rag, theme, storage, actor, token, timerCurrent, timers, rt, location, lastNav,
                 req, si, sa, lo, up, chat>>

(***************************************************************************)
(* Specification: a user message from the composer to the message list     *)
(***************************************************************************)
InitDisplay ==
  /\ \E base \in {"user", "admin"} :
       /\ storage = [actor |-> base, access_token |-> "t1"]
       /\ location = SessionPath(base, 1)
       /\ \E w \in WidgetStates, t \in DisplayTexts : ret = HandleSendCalled(base, w, t)
  /\ actor = storage.actor
  /\ token = storage.access_token
  /\ timerCurrent = 0
  /\ timers = {}
  /\ rt = 0
  /\ lastNav = NoNav
  /\ req = [c \in Callers |-> IdleReq]
  /\ si = IdleSignIn
  /\ sa = IdleSA
  /\ lo = "idle"
  /\ theme = FreshTheme
  /\ rag = IdleRag
  /\ up = IdleUp
  /\ chat = IdleChat

NextDisplay ==
  \/ HandleSend
  \/ RenderUserMessage

SpecDisplay == InitDisplay /\ [][NextDisplay]_vars

(***************************************************************************)
(* Specification: the theme across page loads                              *)
(***************************************************************************)
\* a browser that holds any session and any brand and mode stored earlier
InitTheme ==
  /\ storage \in StoredSessions
  /\ actor = storage.actor
  /\ token = storage.access_token
  /\ timerCurrent = 0
  /\ timers = {}
  /\ rt = 0
  /\ location \in LoadPaths
  /\ lastNav = NoNav
  /\ req = [c \in Callers |-> IdleReq]
  /\ si = IdleSignIn
  /\ sa = IdleSA
  /\ lo = "idle"
  /\ ret = NoCall
  /\ \E b \in Brands \cup {Null}, m \in Modes \cup {Null} : theme = Mounted(b, m, Null, Null)
  /\ rag = IdleRag
  /\ up = IdleUp
  /\ chat = IdleChat

NextTheme ==
  \/ SetBrand
  \/ SetMode
  \/ LoadAny
  \/ Go
  \/ RouteRedirect

SpecTheme == InitTheme /\ [][NextTheme]_vars

(***************************************************************************)
(* Specification: a chat page mounts while the access token has expired    *)
(***************************************************************************)
\* the requests of the boot effect and of the [sid] effect are in flight
\* together
MountCallers == {"boot", "load"}

Response401Mount == \E c \in MountCallers : DoFetch401(c)

RefreshedRetryMount == \E c \in MountCallers : DoFetchRefreshed(c)

NextMount ==
  \/ BootOk
  \/ BootFail
  \/ EffectLoadSettles
  \/ Open
  \/ Response401Mount
  \/ RefreshedRetryMount

SpecMount == InitChat /\ [][NextMount]_vars

(***************************************************************************)
(* Specification: an admin on the RAG documents page                       *)
(***************************************************************************)
NextRag ==
  \/ RagSelect
  \/ RagRemoveAt
  \/ RagClearAll
  \/ RagUploadClick
  \/ RagUploadSettles

SpecRag == InitUpload /\ [][NextRag]_vars

(***************************************************************************)
(* Properties                                                              *)
(***************************************************************************)
\* the role a protected URL is reserved for, by its first segment
RequiredRole(path) ==
  CASE path[1] = "user" -> "user"
    [] path[1] = "admin" -> "admin"
    [] path[1] = "superadmin" -> "super_admin"

\* C1: on every protected route the page or role redirect is produced only
\* when the actor equals the role the route requires; for every other actor
\* (none, another role, an unrecognized string) the element is a redirect to
\* /signin; /admin as admin redirects to /admin/admin.
C1_GuardedRoutes ==
  location \in ProtectedPaths =>
    LET el == RoutesView(location, actor)
    IN /\ actor # RequiredRole(location) => el = Navigate(SignInPath, FALSE)
       /\ actor = RequiredRole(location) =>
            /\ el.kind = "page" \/ (el.kind = "navigate" /\ el.to # SignInPath)
            /\ location = <<"admin">> => el.to = <<"admin", "admin">>

\* /admin/admin is visited by actor user and is about to redirect to /signin
C1_Witness ==
  /\ location = <<"admin", "admin">>
  /\ actor = "user"
  /\ RoutesView(location, actor).to = SignInPath

\* C2: a request refreshes at most once and fetches at most twice; the second
\* fetch exists only after a 401 and a successful refresh; from the retried
\* fetch the request only settles: no further refresh, no further fetch.
C2_OneRefreshOneRetry ==
  /\ [](\A c \in Callers :
          /\ req[c].refreshes <= 1
          /\ req[c].fetches <= 2
          /\ req[c].fetches = 2 => req[c].pc = "fetch2" /\ req[c].refreshes = 1)
  /\ [][\A c \in Callers :
          req[c].pc = "fetch2" /\ req'[c] # req[c] =>
            req'[c].pc \in {"idle", "fetch1"} /\ req'[c].fetches <= 1]_vars

\* a retried fetch is in flight, after a 401 and a successful refresh
C2_Witness == \E c \in Callers : req[c].pc = "fetch2" /\ req[c].refreshes = 1

\* C3: the step that completes logout(), whatever the logout call returned,
\* leaves no actor and no access_token in storage, null actor and token in
\* memory, no pending refresh timer, and has requested /signin with replace.
C3_LogoutClears ==
  [][lo = "awaiting" /\ lo' = "done" =>
       /\ storage' = [actor |-> Null, access_token |-> Null]
       /\ actor' = Null
       /\ token' = Null
       /\ timers' = {}
       /\ lastNav' = [to |-> SignInPath, replace |-> TRUE]
       /\ location' = SignInPath]_vars

\* logout has completed in a tab whose refresh timer had been armed
C3_Witness == lo = "done" /\ timerCurrent # 0 /\ timers = {} /\ storage.actor = Null

\* C4: when a sign-in submit finishes, either setAuth was called (login and
\* profile succeeded, the profile has a role) or the error is shown, storage
\* holds no access_token and setAuth was not called.
C4_SignInFailureCleans ==
  [][si.busy /\ ~si'.busy /\ ~Load =>
       /\ si'.committed <=> si'.err = Null
       /\ si'.committed =>
            /\ si.pc = "profile"
            /\ actor' # Null /\ storage'.actor = actor'
            /\ storage'.access_token = si.tok
       /\ ~si'.committed =>
            /\ si'.err \in {"login", "token", "profile", "role"}
            /\ storage'.access_token = Null
            /\ actor' = actor /\ token' = token /\ storage'.actor = storage.actor
            /\ lastNav' = lastNav /\ timers' = timers]_vars

\* a submit failed at the profile step, after the login token had been stored
C4_Witness == si.err \in {"profile", "role"} /\ ~si.busy /\ storage.access_token = Null

\* C5 as stated: a super-admin submit that does not commit leaves actor and
\* token, in memory and in storage, exactly as they were before the submit.
C5_Original ==
  [][sa.busy /\ ~sa'.busy /\ ~LoadSA =>
       /\ sa'.committed => actor' = "super_admin" /\ storage'.actor = "super_admin"
       /\ ~sa'.committed => sa'.err # Null /\ Snapshot' = sa.pre]_vars

\* C5 (amended): auth is committed only on a super_admin profile; otherwise an
\* error is shown, setAuth is not called and the actor is as before the
\* submit; the token is as before too, unless a 401 made a request of the
\* submit refresh the token, and then storage and memory hold a refreshed one.
C5_NoCommitUnlessSuperAdmin ==
  [][sa.busy /\ ~sa'.busy /\ ~LoadSA =>
       /\ sa'.committed =>
            /\ sa.pc = "profile" /\ sa'.role = "super_admin"
            /\ actor' = "super_admin" /\ storage'.actor = "super_admin"
       /\ ~sa'.committed =>
            /\ sa'.err \in {"login", "token", "profile", "role"}
            /\ actor' = sa.pre.actor /\ storage'.actor = sa.pre.storage.actor
            /\ lastNav' = lastNav /\ timers' = timers
            /\ ~sa'.refreshed => Snapshot' = sa.pre
            /\ sa'.refreshed =>
                 token' \in RefreshTokens /\ storage'.access_token = token']_vars

\* a submit ended on a profile whose role is not super_admin
C5_Witness ==
  /\ sa.err = "role" /\ sa.role \in {"user", "admin"}
  /\ ~sa.busy /\ ~sa.committed

\* C6: send(id, content) starts the re-fetch of session id's messages in the
\* step in which the send request settles, resolved or rejected, and in no
\* other step; a rejected send is alerted; send itself resolves.
C6_ReloadAfterSend ==
  [][/\ chat.op.kind = "send" /\ chat.op.pc = "sending" /\ chat'.op # chat.op =>
          /\ chat'.op.pc = "reloading"
          /\ chat'.op.id = chat.op.id
          /\ req["op"].url = "/chat/sessions/id/messages" /\ req["op"].method = "POST"
          /\ req'["op"] = NewReq("GET", "/chat/sessions/id/messages", storage.access_token)
          /\ chat'.op.failed <=> chat'.op.alerted
     /\ chat'.op.pc = "reloading" /\ chat.op.pc # "reloading" =>
          chat.op.pc = "sending" /\ Outcomes("op") # {}
     /\ chat.op.pc = "reloading" /\ chat'.op # chat.op =>
          /\ chat'.op = NoOp
          /\ chat'.done.result = "resolved"
          /\ chat.op.failed => chat.op.alerted]_vars

\* the reload is in flight after a send that was rejected and alerted
C6_Witness ==
  /\ chat.op.kind = "send" /\ chat.op.pc = "reloading"
  /\ chat.op.failed /\ chat.op.alerted
  /\ req["op"].method = "GET"

MaxTitleLen == 45

RECURSIVE CollapseSpaces(_)
\* every run of spaces replaced by one space
CollapseSpaces(t) ==
  IF Len(t) <= 1 THEN t
  ELSE IF t[1] = " " /\ t[2] = " " THEN CollapseSpaces(Tail(t))
  ELSE <<t[1]>> \o CollapseSpaces(Tail(t))

Trim(t) ==
  LET a == IF Len(t) > 0 /\ t[1] = " " THEN Tail(t) ELSE t
  IN IF Len(a) > 0 /\ a[Len(a)] = " " THEN SubSeq(a, 1, Len(a) - 1) ELSE a

\* the title the chat hook is specified to persist for a supplied title
Sanitize(t) ==
  LET u == Trim(CollapseSpaces(t))
  IN SubSeq(u, 1, IF Len(u) > MaxTitleLen THEN MaxTitleLen ELSE Len(u))

\* C8 as stated: a rename called with a title opens no prompt and sends the
\* sanitized title: whitespace collapsed, trimmed, cut to 45 characters.
C8_Original ==
  chat.op.kind = "rename" /\ chat.op.hasArg =>
    ~chat.op.prompted /\ chat.op.sent = Sanitize(chat.op.arg)

\* C9 as stated: after a send whose message request was rejected, the
\* composer still holds the text the user typed.
C9_Original ==
  [][chat.op.kind = "send" /\ chat.op.failed /\ chat'.op.kind = "none" =>
       chat'.text = chat.text]_vars

\* C10: when remove(id) has deleted the session, the local list is the old
\* one without id; if id was the active session the location is the first
\* remaining session's URL, or the bare prefix when none remains; otherwise
\* the location is unchanged. [101, 102] with 102 active ends at /user/chat/101.
C10_RemoveNavigates ==
  [][chat.op.kind = "remove" /\ chat'.done.kind = "remove"
       /\ chat'.done.result = "resolved" =>
       LET id == chat.op.id
       IN /\ chat'.sessions = Without(chat.sessions, id)
          /\ ~InList(chat'.server, id)
          /\ chat.op.sid # id => location' = location
          /\ chat.op.sid = id /\ Len(chat'.sessions) > 0 =>
               location' = SessionPath(chat.base, chat'.sessions[1])
          /\ chat.op.sid = id /\ Len(chat'.sessions) = 0 =>
               location' = Prefix(chat.base)
          /\ chat.sessions = <<101, 102>> /\ id = 102 /\ chat.op.sid = 102
               /\ chat.base = "user" =>
               location' = <<"user", "chat", "101">>]_vars

\* session 102, the second of two and the active one, has been removed
C10_Witness ==
  /\ chat.done = [kind |-> "remove", id |-> 102, result |-> "resolved"]
  /\ chat.sessions = <<101>>
  /\ location = <<"user", "chat", "101">>

\* C11: the step in which the sign-in page calls setAuth(a, t, e) with a one
\* of the three roles stores actor a and token t, requests the replace
\* navigation to a's home path, and from there the router's redirects end on
\* a's landing page, not on /signin; the redirect the router then performs
\* from the home path goes to that landing route.
C11_SetAuthLands ==
  /\ [][si'.committed /\ ~si.committed /\ actor' \in Actors =>
          /\ storage' = [actor |-> actor', access_token |-> si.tok]
          /\ token' = si.tok
          /\ lastNav' = [to |-> location', replace |-> TRUE]
          /\ location' \in {<<"user">>, <<"admin">>, <<"superadmin">>}
          /\ Settle(location', actor', MaxRedirects) = Landing(actor')
          /\ RoutesView(Landing(actor'), actor').kind = "page"]_vars
  /\ [][si.committed /\ actor \in Actors /\ location = lastNav.to /\ RouteRedirect =>
          location' = Landing(actor) /\ location' # SignInPath]_vars

\* after setAuth for an admin the router has redirected /admin to /admin/admin
C11_Witness ==
  /\ si.committed /\ actor = "admin" /\ storage.actor = "admin"
  /\ lastNav = [to |-> <<"admin">>, replace |-> TRUE]
  /\ location = <<"admin", "admin">>

\* C12 as stated: tryRefresh never throws; it returns success exactly on a
\* 2xx answer with a string access_token and a numeric expires_in, and then
\* it has stored that token and broadcast it with its expiry; otherwise it
\* leaves the stored token alone and broadcasts nothing.
C12_Original ==
  [][ret'.fn = "tryRefresh" /\ rt' < rt =>
       LET r == ret'.arg
           out == ret'.out
       IN /\ ~out.threw
          /\ out.ok <=> /\ r.kind = "2xx"
                        /\ IsString(r.access_token)
                        /\ r.expires_in # NoNum
          /\ out.ok => /\ storage'.access_token = r.access_token
                       /\ out.event = [token |-> r.access_token,
                                       expires_in |-> r.expires_in]
          /\ ~out.ok => storage' = storage /\ out.event = NoEvent]_vars

\* the token fields of a body together with the bare body, in reading order
TokenValues(d) ==
  <<d.access_token, d.access, d.token, d.accessToken, d.id_token, d.bare>>

C14_DownloadStatic ==
  ret.fn = "downloadDocument" =>
    /\ Len(ret.fetched) <= 1
    /\ ret.pc = "meta" => ret.fetched = <<>>
    /\ ret.pc = "done" /\ ~ret.metaOk => ret.fetched = <<>>
    /\ ret.metaOk /\ ret.path = <<>> =>
         /\ ret.pc = "done" /\ ret.fetched = <<>>
         /\ ret.out = "No file_path available for this document"
    /\ ret.metaOk /\ ret.path # <<>> =>
         /\ Len(ret.fetched) = 1
         /\ StartsWith(ret.fetched[1], StaticPrefix)
         /\ StartsWith(ret.path, StaticPrefix) => ret.fetched[1] = ret.path
         /\ ~StartsWith(ret.path, StaticPrefix) =>
              \E k \in 0..Len(ret.path) :
                /\ \A i \in 1..k : ret.path[i] = "/"
                /\ k < Len(ret.path) => ret.path[k + 1] # "/"
                /\ ret.fetched[1] = StaticPrefix \o SubSeq(ret.path, k + 1, Len(ret.path))
         /\ ret.path = DocsPath => ret.fetched[1] = StaticPrefix \o DocsPath
         /\ ret.static = "non2xx" => ret.pc = "done" /\ ret.out = "HTTP status"
         /\ ret.static = "2xx" => ret.out = "blob"

\* a document stored at //docs/a.pdf was fetched from /static/docs/a.pdf
\* and the static server answered with an error status
C14_Witness ==
  /\ ret.fn = "downloadDocument" /\ ret.pc = "done"
  /\ ret.path = <<"/", "/">> \o DocsPath
  /\ ret.fetched = <<StaticPrefix \o DocsPath>>
  /\ ret.static = "non2xx" /\ ret.out = "HTTP status"

\* C15: a hook mounted on a URL without a session id performs, when the
\* session list has loaded, exactly one navigation, a replacing one, to the
\* first session of the loaded list or to the bare prefix when that list is
\* empty; mounted on a URL with a session id it performs none; the boot
\* effect never navigates a second time
C15_BootNavigates ==
  /\ [](/\ Len(chat.bootNavs) <= 1
        /\ (chat.bootSid # 0 \/ chat.boot # "done") => chat.bootNavs = <<>>
        /\ (chat.bootSid = 0 /\ chat.boot = "done") => Len(chat.bootNavs) = 1)
  /\ [][(chat.boot = "listing" /\ chat'.boot = "done" /\ chat.bootSid = 0)
          => /\ location' = (IF chat.server = <<>>
                               THEN Prefix(chat.base)
                               ELSE SessionPath(chat.base, Head(chat.server)))
             /\ chat'.bootNavs = <<[to |-> location', replace |-> TRUE]>>]_vars
  /\ [][(chat.boot = "listing" /\ chat'.boot = "done" /\ chat.bootSid # 0)
          => location' = location]_vars
  /\ [][chat.boot # "listing" => chat'.bootNavs = chat.bootNavs]_vars

\* the list loaded with at least one session on a URL without a session id,
\* and the page sits on the first session's URL after the one navigation
C15_Witness ==
  /\ chat.boot = "done"
  /\ chat.bootSid = 0
  /\ Len(chat.bootNavs) = 1
  /\ chat.bootNavs[1].to # Prefix(chat.base)
  /\ chat.op.kind = "none"
  /\ chat.done.kind = "none"
  /\ location = chat.bootNavs[1].to

\* what the entries of a detail array render to when every entry with a loc
\* array that has a last segment shows that segment
RenderedWithLoc(d) ==
  IF d.loc.segs # <<>>
    THEN d.loc.segs[Len(d.loc.segs)].s \o ": " \o d.msg
    ELSE d.msg

\* C16 as stated, read in its favour (the composed message is what follows
\* the "<METHOD> <url>: " prefix of the raised error): for a response that is
\* not ok whose JSON body has an array detail of entries with a msg, the
\* message is the entries rendered as "<last loc segment>: <msg>", or the msg
\* alone without a loc, joined with "; "
C16_Original ==
  (/\ ret.fn = "ensureOk"
   /\ ret.status # 200
   /\ ret.body.kind = "json"
   /\ ret.body.detail.kind = "array"
   /\ \A i \in 1..Len(ret.body.detail.entries) : ret.body.detail.entries[i].msg # Null)
  => /\ ret.out.threw
     /\ ret.out.message =
          ret.method \o " " \o ret.url \o ": "
          \o Join([i \in 1..Len(ret.body.detail.entries) |->
                     RenderedWithLoc(ret.body.detail.entries[i])], "; ")

\* C17 as stated: whenever a fetch of a doFetch call fails at the transport
\* level, the first or the retried one, the call throws an error whose message
\* is "<METHOD> <url>: " followed by the underlying message, or by the
\* wrapper's stand-in text when the underlying error has none
C17_Original ==
  (ret.fn = "doFetch" /\ ret.pc = "done" /\ ret.out.kind = "network")
  => /\ ret.out.threw
     /\ \E text \in {ret.out.cause, NetworkErrorText} :
          ret.out.message = MethodOf(ret.method) \o " " \o ret.url \o ": " \o text

\* C18: the brand in memory is always one of grey, blue, green, yellow, red
\* and the mode one of light, dark; with nothing stored they are blue and
\* light; once set, each equals the value in localStorage and the last value
\* passed to its setter, also after any number of page loads
C18_ThemePersists ==
  /\ theme.brand \in Brands
  /\ theme.mode \in Modes
  /\ theme.lsBrand = Null => theme.brand = "blue"
  /\ theme.lsMode = Null => theme.mode = "light"
  /\ theme.lsBrand # Null => theme.brand = theme.lsBrand
  /\ theme.lsMode # Null => theme.mode = theme.lsMode
  /\ theme.setBrand # Null => theme.brand = theme.setBrand /\ theme.lsBrand = theme.setBrand
  /\ theme.setMode # Null => theme.mode = theme.setMode /\ theme.lsMode = theme.setMode

\* green and dark were set, the page was loaded again, and the provider
\* shows green and dark
C18_Witness ==
  /\ theme.setBrand = "green"
  /\ theme.setMode = "dark"
  /\ theme.restored
  /\ theme.brand = "green"
  /\ theme.mode = "dark"

\* C19: for every widget state and every text the composer submits (the
\* field's text without the white space around it), the content posted is the
\* Docs line or the general-knowledge line, then the style line for short or
\* detailed, then that text, joined by blank lines, exactly as buildContent
\* returned it; Docs with Short posts the two lines of the example and the text
C19_ContentSent ==
  (ret.fn = "handleSend" /\ ret.sent)
  => /\ \E a, b \in 0..Len(ret.typed) :
          /\ a + Len(ret.raw) + b = Len(ret.typed)
          /\ \A i \in 1..Len(ret.typed) :
               IF i <= a \/ i > a + Len(ret.raw) THEN ret.typed[i] \in Space
                                                 ELSE ret.typed[i] = ret.raw[i - a]
          /\ ret.raw # <<>>
          /\ ret.raw[1] \notin Space /\ ret.raw[Len(ret.raw)] \notin Space
     /\ ret.content = ret.built
     /\ ret.content =
          <<IF ret.widgets.useDocuments THEN DocsLine ELSE GeneralLine>>
          \o <<"\n", "\n">>
          \o (IF ret.widgets.answerStyle = "short" THEN <<ShortLine, "\n", "\n">>
              ELSE IF ret.widgets.answerStyle = "detailed"
                THEN <<DetailedLine(ret.base), "\n", "\n">>
                ELSE <<>>)
          \o ret.raw
     /\ (ret.widgets.useDocuments /\ ret.widgets.answerStyle = "short")
        => ret.content =
             <<"Use the uploaded company documents as primary context when answering.",
               "\n", "\n", "Keep the answer very short (2-3 sentences).", "\n", "\n">>
             \o ret.raw

\* Docs and Short are selected and a text typed with white space around it
\* has been posted
C19_Witness ==
  /\ ret.fn = "handleSend"
  /\ ret.sent
  /\ ret.widgets.useDocuments
  /\ ret.widgets.answerStyle = "short"
  /\ ret.typed = <<" ", "q", " ">>
  /\ ret.content = <<DocsLine, "\n", "\n", ShortLine, "\n", "\n", "q">>

\* C20 as stated: once logout() has completed and while no sign-in is under
\* way, no step puts an access_token into storage or a token into memory, or
\* arms a refresh timer; the answer to a refresh that was in flight when
\* logout ran is such a step
C20_Original ==
  [][(/\ lo = "done"
      /\ storage.access_token = Null /\ token = Null /\ timers = {}
      /\ si.pc = "idle" /\ si'.pc = "idle")
     => (storage'.access_token = Null /\ token' = Null /\ timers' = {})]_vars

\* C21 as stated: whenever no message request is in flight (no load of the
\* [sid] effect, no send and no reload after a send), the messages held are
\* those fetched for the active session id, or none
C21_Original ==
  (chat.loadSid = 0 /\ chat.op.kind # "send") => chat.messagesFor \in {Sid, 0}

\* C22: every request refreshes at most once and retries only after its own
\* refresh succeeded, whatever other requests are doing (the refresh of one
\* request neither answers nor cancels the refresh of another); the step that
\* processes a successful refresh answer leaves that answer's access_token in
\* storage, so the last answer processed wins
C22_RefreshPerRequest ==
  /\ [](\A c \in Callers : req[c].refreshes <= 1 /\ req[c].fetches <= 2)
  /\ [][\A c \in Callers :
          (req[c].pc # "fetch2" /\ req'[c].pc = "fetch2")
          => /\ req[c].pc = "refresh"
             /\ req'[c].refreshes = 1
             /\ storage'.access_token = req'[c].auth
             /\ \A d \in Callers \ {c} : req'[d] = req[d]]_vars

\* two refreshes were in flight together and both answers have been
\* processed, each request being on its own retry; storage holds the token of
\* the answer processed last, which differs from the other
C22_Witness ==
  /\ req["boot"].pc = "fetch2"
  /\ req["load"].pc = "fetch2"
  /\ req["boot"].auth # req["load"].auth
  /\ storage.access_token \in {req["boot"].auth, req["load"].auth}

\* C23 as stated: whenever no sign-in, logout or refresh is in progress and no
\* request is in flight, the actor and token in memory equal the actor and
\* access_token in storage
C23_Original ==
  (/\ si.pc = "idle" /\ sa.pc = "idle" /\ lo # "awaiting" /\ rt = 0
   /\ \A c \in Callers : req[c].pc = "idle")
  => (actor = storage.actor /\ token = storage.access_token)

\* C24 as stated: while the profile request of a submit is on its first
\* fetch, on the sign-in page and on the super-admin login page, the token it
\* carries is the one the login call of that submit returned; a request sent
\* without a token from storage is left aside, a cookie may have carried one
C24_Original ==
  /\ (si.pc = "profile" /\ req["signin"].pc = "fetch1")
     => req["signin"].auth = si.tok
  /\ (sa.pc = "profile" /\ req["sa"].pc = "fetch1" /\ req["sa"].auth # Null)
     => req["sa"].auth = sa.tok

\* C25 as stated: on the RAG documents page no two uploads are in flight
\* together and no file is posted more often than it was staged
C25_Original ==
  /\ Len(rag.calls) <= 1
  /\ \A f \in FileNames : rag.posted[f] <= rag.staged[f]

\* C26: within one uploadDocuments call at most one request is in flight, the
\* files are posted in input order, and the file at position i+1 is posted
\* only once the request for position i has settled, whether it succeeded or
\* failed
C26_UploadSequential ==
  /\ Cardinality(up.inflight) <= 1
  /\ \A k \in 1..Len(up.sent) : up.sent[k] = k
  /\ Len(up.sent) <= Len(up.items) + 1
  /\ up.pc = "posting" => up.inflight = {Len(up.items) + 1}
  /\ up.pc = "done" => (up.inflight = {} /\ Len(up.sent) = Len(up.files))

\* a two-file call whose first request failed has posted the second and returned
C26_Witness ==
  /\ up.pc = "done"
  /\ Len(up.files) = 2
  /\ up.sent = <<1, 2>>
  /\ ~up.served[1]

\* C27: a tab never has two proactive refresh timers pending: the pending
\* timer, if any, is the one the timer ref holds, it was armed for a truthy
\* expiresIn and fires after max(5, expiresIn - 10) seconds.
C27_OneTimer ==
  /\ Cardinality(timers) <= 1
  /\ \A t \in timers :
       /\ t.id = timerCurrent
       /\ t.expiresIn \notin {NoNum, 0}
       /\ t.ms = 1000 * (IF t.expiresIn - 10 > 5 THEN t.expiresIn - 10 ELSE 5)

\* the timer armed by a token-refreshed signal has replaced the one setAuth
\* armed, and the 5 second floor applies to it
C27_Witness ==
  /\ actor # Null
  /\ token \in RefreshTokens
  /\ \E t \in timers : t.expiresIn = 12 /\ t.ms = 5000
  /\ \E c \in Callers : req[c].pc = "fetch2"

\* a step in which a tryRefresh() settles with success: the one the timer
\* started, or the one the 401 of a request started
RefreshSucceeded ==
  /\ rt' < rt \/ (req["upload"].pc = "refresh" /\ req'["upload"].pc = "fetch2")
  /\ ret'.fn = "tryRefresh"
  /\ ret'.out.ok

\* C28 as stated: after every successful refresh the token in memory is the
\* stored one and a refresh timer armed from the new expires_in is pending
C28_Original ==
  [][RefreshSucceeded =>
       /\ token' = storage'.access_token
       /\ \E t \in timers' : t.expiresIn = ret'.arg.expires_in]_vars

\* C28 amended: after every successful refresh the token in memory is the
\* access_token of the refresh response and storage holds its string form;
\* the timer pending before is cancelled, and a new one is armed from the new
\* expires_in unless that is 0, in which case none is pending
C28_RefreshRearms ==
  [][RefreshSucceeded =>
       /\ token' = ret'.arg.access_token
       /\ storage'.access_token = Stringify(token')
       /\ timers' = IF ret'.arg.expires_in = 0 THEN {}
                    ELSE {[id |-> timerCurrent', ms |-> RefreshDelay(ret'.arg.expires_in),
                           expiresIn |-> ret'.arg.expires_in]}]_vars

\* a refresh started by the 401 of an upload has succeeded and re-armed the timer
C28_Witness ==
  /\ ret.fn = "tryRefresh" /\ ret.out.ok
  /\ req["upload"].pc = "fetch2"
  /\ token = ret.arg.access_token /\ token \in RefreshTokens
  /\ \E t \in timers : t.expiresIn = ret.arg.expires_in

\* C29 as stated: whenever no operation of the sidebar is in progress, the
\* session list of the chat page's hook equals that of the sidebar's hook
C29_Original ==
  (chat.boot = "done" /\ chat.pageBoot = "done" /\ chat.op.kind = "none")
  => chat.pageSessions = chat.sessions

\* C30 as stated: the text displayed for a user message is the text the user
\* typed, trimmed: every line of buildContent is removed and nothing of the user
C30_Original ==
  ret.fn = "stripScaffold" => ret.shown = ret.raw

\* C30 amended: the text displayed holds no line of buildContent, and it is
\* the text the user typed, trimmed, unless that text itself begins with one
\* of the scaffold prefixes, in which case nothing is displayed; the words
\* each line of buildContent is cut into spell that line
C30_ScaffoldStripped ==
  /\ \A l \in {DocsLine, GeneralLine, ShortLine, DetailedLine("user"), DetailedLine("admin")} :
       Spell(Words(l)) = l
  /\ ret.fn = "stripScaffold" =>
       /\ \A i \in 1..Len(ret.shown) :
            ret.shown[i] \notin {"Use the uploaded company documents as primary context when answering.",
                                 "Answer using your general knowledge.",
                                 " (2-3 sentences).",
                                 "Provide a detailed, step-by-step explanation"}
       /\ ret.shown = IF ret.raw[1] = "Keep the answer very short" THEN <<>> ELSE ret.raw

\* detailed answers from general knowledge on the admin page: the lines of
\* buildContent are gone and the typed text, inner space kept, is displayed
C30_Witness ==
  /\ ret.fn = "stripScaffold"
  /\ ~ret.widgets.useDocuments /\ ret.widgets.answerStyle = "detailed" /\ ret.base = "admin"
  /\ ret.raw = <<"q", " ", "q">>
  /\ ret.shown = <<"q", " ", "q">>

====
